---- MODULE Spec2Model ----
(***************************************************************************)
(* OMAP voltage processor (arch/arm/mach-omap2/vp.c) and OMAP4 PRM         *)
(* instance reset lines (arch/arm/mach-omap2/prminst44xx.c).               *)
(*                                                                         *)
(* A 32-bit register value is the set of its set bit positions (0..31):    *)
(* a & b is \cap, a | b is \cup, ~a is the complement in 0..31.            *)
(* Every call of an operation is one action; the accesses it makes are     *)
(* recorded, in program order, in the variable trace.                      *)
(***************************************************************************)
EXTENDS Integers, Sequences, FiniteSets, TLC

VARIABLES vpconfig, enabled, vp_debug_error_message_count, vp_recover_count,
          call, ret, trace, written, nRouted, nRecoverable, recoverCalls,
          prm_regs, prm_bases, vp_regs, retv, pc, local, lock

vars == <<vpconfig, enabled, vp_debug_error_message_count, vp_recover_count,
          call, ret, trace, written, nRouted, nRecoverable, recoverCalls,
          prm_regs, prm_bases, vp_regs, retv, pc, local, lock>>

\* the partition bases, the threads of the step-by-step specifications and
\* the lock their callers may hold
steps == <<pc, local, lock>>

(***************************************************************************)
(* Bounds of the model.                                                    *)
(***************************************************************************)
\* polls of the VP idle bit (VP_IDLE_TIMEOUT of vp.h, scaled down)
VP_IDLE_TIMEOUT == 2
\* attempts of a transaction-done loop (VP_TRANXDONE_TIMEOUT of vp.h, scaled)
VP_TRANXDONE_TIMEOUT == 2
\* polls of the reset status bit (MAX_MODULE_HARDRESET_WAIT, scaled down)
MAX_MODULE_HARDRESET_WAIT == 3
\* routed errors after which the scaling specification stops injecting faults
MaxRouted == 2
\* errors injected by the error-path specification
MaxErrInjected == 102
\* routed errors up to which the second domain reports errors concurrently
MaxRaceErr == 3
\* errors injected by the concurrent error-path specification
MaxErrRaced == 52

(***************************************************************************)
(* Program constants.                                                      *)
(***************************************************************************)
_MAX_RETRIES_BEFORE_RECOVER == 50
_MAX_COUNT_ERR == 10
EINVAL == 22
ETIMEDOUT == 110
EEXIST == 17
EBUSY == 16
EIO == 5
OMAP4_RST_CTRL_ST_OFFSET == 4

(***************************************************************************)
(* 32-bit values as sets of bit positions.                                 *)
(***************************************************************************)
Word == 0..31
BitNot(a) == Word \ a
\* the bits of a small non-negative number (u8 operands)
Bits8(n) == {i \in 0..7 : (n \div (2^i)) % 2 = 1}
\* v << s on a 32-bit value
Shl(v, s) == {i + s : i \in {j \in v : j + s <= 31}}
\* v >> s
Shr(v, s) == {i - s : i \in {j \in v : j >= s}}
\* __ffs(mask): position of the lowest set bit
__ffs(mask) == CHOOSE i \in mask : \A j \in mask : i <= j

(***************************************************************************)
(* VP configuration register layout (struct omap_vp_common).               *)
(***************************************************************************)
vpconfig_vpenable == {0}
vpconfig_forceupdate == {1}
vpconfig_initvdd == {2}
vpconfig_timeouten == {3}
vpconfig_initvoltage_mask == 8..15
vpconfig_errorgain_mask == 16..23
vpconfig_erroroffset_mask == 24..31

(***************************************************************************)
(* Voltage domains handed to the operations.  NULL is the null/ERR         *)
(* pointer; the others differ in the members the code tests.               *)
(***************************************************************************)
NULL == "NULL"
Domains == {"core", "iva", "mpu", "nowrite", "novp"}
\* with the domains whose platform data lacks something omap_vp_init needs
CfgDomains == Domains \cup {"nopmic", "noconv", "noread", "novcparam",
                            "novpparam"}
DomPtrs == Domains \cup {NULL}
\* the domains whose voltage is scaled
ScaleDomPtrs == DomPtrs \ {"iva"}
IS_ERR_OR_NULL(p) == p = NULL
\* voltdm->read
has_read(d) == d \in CfgDomains \ {"noread"}
\* voltdm->write
has_write(d) == d \in CfgDomains \ {"nowrite"}
\* voltdm->vp
has_vp(d) == d \in CfgDomains \ {"novp"}
\* voltdm->rmw
has_rmw(d) == d \in CfgDomains \ {"mpu"}
\* voltdm->pmic and voltdm->pmic->uv_to_vsel
has_pmic(d) == d \in CfgDomains \ {"nopmic"}
has_uv_to_vsel(d) == has_pmic(d) /\ d # "noconv"
\* voltdm->vc_param, voltdm->vp_param
has_vc_param(d) == d \in CfgDomains \ {"novcparam"}
has_vp_param(d) == d \in CfgDomains \ {"novpparam"}
\* vp->common->ops->recover
has_recover(d) == d \in {"core", "iva"}
\* domains every operation accepts
FullDomains == {d \in Domains : has_write(d) /\ has_vp(d)}

\* target voltage descriptors (struct omap_volt_data)
VoltData == {"opp50", "opp100"}
TargetPtrs == VoltData \cup {NULL}
\* nominal voltage of a descriptor, in microvolts
omap_get_operation_voltage(vdata) ==
    IF vdata = "opp50" THEN 1025000 ELSE 1200000
\* PMIC conversion of microvolts to a selector code
uv_to_vsel(uv) == ((uv - 600000) + 12499) \div 12500

(***************************************************************************)
(* Events of a call, in program order.                                     *)
(***************************************************************************)
Ev(e, r, v, a, b) ==
    [e |-> e, r |-> r, v |-> v, a |-> a, b |-> b, part |-> 0, inst |-> 0]
\* an access to register idx of instance inst of partition part
EvPrm(e, part, inst, idx) ==
    [e |-> e, r |-> "prm", v |-> 0, a |-> idx, b |-> 0, part |-> part,
     inst |-> inst]
\* a register read; for a poll, v is the polled bit and a the number of the poll
EvRead(r, seen) == Ev("read", r, IF seen THEN 1 ELSE 0, 0, 0)
EvPoll(r, i, seen) == Ev("read", r, IF seen THEN 1 ELSE 0, i, 0)
EvWrite(r) == Ev("write", r, 0, 0, 0)

\* the running state of a call: VP configuration register of the domain,
\* the two shared counters, the register values written to vpconfig, and
\* the events so far
Ctx(cfg, msg, rec) == [cfg |-> cfg, msg |-> msg, rec |-> rec,
                       wr |-> << >>, tr |-> << >>]
Log(st, ev) == [st EXCEPT !.tr = Append(@, ev)]

\* voltdm->write(val, vp->vpconfig)
WriteVpconfig(st, val) ==
    [st EXCEPT !.cfg = val,
               !.wr = Append(@, [r |-> "vpconfig", idx |-> 0, val |-> val]),
               !.tr = Append(@, EvWrite("vpconfig"))]

(***************************************************************************)
(* omap_test_timeout(cond, timeout, index): poll cond up to timeout times. *)
(* first is the poll (1, 2, ...) on which the hardware first shows cond;   *)
(* the result is the final value of index.                                 *)
(***************************************************************************)
RECURSIVE omap_test_timeout(_, _, _)
omap_test_timeout(first, timeout, index) ==
    IF index < timeout
    THEN IF index + 1 >= first THEN index
         ELSE omap_test_timeout(first, timeout, index + 1)
    ELSE index

\* the polls omap_test_timeout makes: one read event each
PollEvents(r, first, timeout) ==
    LET n == IF first <= timeout THEN first ELSE timeout
    IN [i \in 1..n |-> EvPoll(r, i, i >= first)]

\* _vp_wait_for_idle with the timeout test off by one: a wait that used up
\* all its polls is taken for a success
_vp_wait_for_idle_late(st, first) ==
    LET timeout == omap_test_timeout(first, VP_IDLE_TIMEOUT, 0)
        s1 == [st EXCEPT !.tr = @ \o PollEvents("vstatus", first,
                                                  VP_IDLE_TIMEOUT)]
    IN IF timeout > VP_IDLE_TIMEOUT
       THEN [r |-> -ETIMEDOUT,
             st |-> Log(s1, Ev("pr_warn_ratelimited", "idle", 0, 0, 0))]
       ELSE [r |-> 0, st |-> s1]

(***************************************************************************)
(* _vp_wait_for_idle                                                       *)
(***************************************************************************)
_vp_wait_for_idle(st, first) ==
    LET timeout == omap_test_timeout(first, VP_IDLE_TIMEOUT, 0)
        s1 == [st EXCEPT !.tr = @ \o PollEvents("vstatus", first,
                                                  VP_IDLE_TIMEOUT)]
    IN IF timeout >= VP_IDLE_TIMEOUT
       THEN [r |-> -ETIMEDOUT,
             st |-> Log(s1, Ev("pr_warn_ratelimited", "idle", 0, 0, 0))]
       ELSE [r |-> 0, st |-> s1]

\* _vp_set_init_voltage clearing the VP enable bit with the fields it resets
_vp_set_init_voltage_clears_enable(st, volt) ==
    LET vsel == Bits8(uv_to_vsel(volt) % 256)
        s0 == Log(st, EvRead("vpconfig", FALSE))
        v == (s0.cfg \cap BitNot(vpconfig_initvoltage_mask \cup
                                  vpconfig_forceupdate \cup
                                  vpconfig_initvdd \cup vpconfig_vpenable))
             \cup Shl(vsel, __ffs(vpconfig_initvoltage_mask))
        s1 == WriteVpconfig(s0, v)
        s2 == WriteVpconfig(s1, v \cup vpconfig_initvdd)
        s3 == WriteVpconfig(s2, v)
    IN [vpconfig |-> v, st |-> s3]

\* _vp_set_init_voltage leaving the initVDD copy trigger bit set
_vp_set_init_voltage_no_pulse_clear(st, volt) ==
    LET vsel == Bits8(uv_to_vsel(volt) % 256)
        s0 == Log(st, EvRead("vpconfig", FALSE))
        v == (s0.cfg \cap BitNot(vpconfig_initvoltage_mask \cup
                                  vpconfig_forceupdate \cup
                                  vpconfig_initvdd))
             \cup Shl(vsel, __ffs(vpconfig_initvoltage_mask))
        s1 == WriteVpconfig(s0, v)
        s2 == WriteVpconfig(s1, v \cup vpconfig_initvdd)
    IN [vpconfig |-> v, st |-> s2]

(***************************************************************************)
(* _vp_set_init_voltage: returns the composed value and the new state      *)
(***************************************************************************)
_vp_set_init_voltage(st, volt) ==
    LET vsel == Bits8(uv_to_vsel(volt) % 256)
        s0 == Log(st, EvRead("vpconfig", FALSE))
        v == (s0.cfg \cap BitNot(vpconfig_initvoltage_mask \cup
                                  vpconfig_forceupdate \cup
                                  vpconfig_initvdd))
             \cup Shl(vsel, __ffs(vpconfig_initvoltage_mask))
        s1 == WriteVpconfig(s0, v)
        s2 == WriteVpconfig(s1, v \cup vpconfig_initvdd)
        s3 == WriteVpconfig(s2, v)
    IN [vpconfig |-> v, st |-> s3]

\* _vp_controlled_err decrementing the recovery counter before it looks
\* for the recovery callback
_vp_controlled_err_dec_first(st, d, what) ==
    LET s1 == IF st.msg # 0
              THEN [Log(Log(st, Ev("pr_err", what, 0, 0, 0)),
                        Ev("dump_stack", what, 0, 0, 0))
                    EXCEPT !.msg = @ - 1]
              ELSE Log(st, Ev("pr_err_ratelimited", what, 0, 0, 0))
        dec == (s1.rec + 255) % 256
    IN IF dec = 0
       THEN IF has_recover(d)
            THEN [Log(s1, Ev("recover", d, 0, 0, 0))
                  EXCEPT !.rec = _MAX_RETRIES_BEFORE_RECOVER]
            ELSE [s1 EXCEPT !.rec = _MAX_RETRIES_BEFORE_RECOVER]
       ELSE [s1 EXCEPT !.rec = dec]

\* _vp_controlled_err decrementing the u8 message counter on every error
_vp_controlled_err_msg_wrap(st, d, what) ==
    LET s0 == IF st.msg # 0
              THEN Log(Log(st, Ev("pr_err", what, 0, 0, 0)),
                       Ev("dump_stack", what, 0, 0, 0))
              ELSE Log(st, Ev("pr_err_ratelimited", what, 0, 0, 0))
        s1 == [s0 EXCEPT !.msg = (@ + 255) % 256]
        dec == (s1.rec + 255) % 256
    IN IF has_recover(d)
       THEN IF dec = 0
            THEN [Log(s1, Ev("recover", d, 0, 0, 0))
                  EXCEPT !.rec = _MAX_RETRIES_BEFORE_RECOVER]
            ELSE [s1 EXCEPT !.rec = dec]
       ELSE s1

(***************************************************************************)
(* _vp_controlled_err: the rate-limited error / recovery path              *)
(***************************************************************************)
_vp_controlled_err(st, d, what) ==
    LET s1 == IF st.msg # 0
              THEN [Log(Log(st, Ev("pr_err", what, 0, 0, 0)),
                        Ev("dump_stack", what, 0, 0, 0))
                    EXCEPT !.msg = @ - 1]
              ELSE Log(st, Ev("pr_err_ratelimited", what, 0, 0, 0))
        dec == (s1.rec + 255) % 256
    IN IF has_recover(d)
       THEN IF dec = 0
            THEN [Log(s1, Ev("recover", d, 0, 0, 0))
                  EXCEPT !.rec = _MAX_RETRIES_BEFORE_RECOVER]
            ELSE [s1 EXCEPT !.rec = dec]
       ELSE s1

(***************************************************************************)
(* The transaction-done clear loop of omap_vp_forceupdate_scale:           *)
(*   while (timeout++ < VP_TRANXDONE_TIMEOUT) {                            *)
(*       clear_txdone(); if (!check_txdone()) break; udelay(1); }          *)
(* first is the attempt on which check_txdone first reports "not pending". *)
(* Returns the final value of timeout and the state after the attempts.    *)
(***************************************************************************)
RECURSIVE ClearTxdoneLoop(_, _, _)
ClearTxdoneLoop(st, first, timeout) ==
    IF timeout < VP_TRANXDONE_TIMEOUT
    THEN LET t == timeout + 1
             pending == t < first
             s1 == Log(Log(st, Ev("clear_txdone", "clear", 0, t, 0)),
                       Ev("check_txdone", "clear",
                          IF pending THEN 1 ELSE 0, t, 0))
         IN IF ~pending THEN [timeout |-> t, st |-> s1]
            ELSE ClearTxdoneLoop(s1, first, t)
    ELSE [timeout |-> timeout + 1, st |-> st]

\* omap_test_timeout(check_txdone(), VP_TRANXDONE_TIMEOUT, timeout)
WaitTxdone(st, first) ==
    LET n == IF first <= VP_TRANXDONE_TIMEOUT THEN first
             ELSE VP_TRANXDONE_TIMEOUT
    IN [timeout |-> omap_test_timeout(first, VP_TRANXDONE_TIMEOUT, 0),
        st |-> [st EXCEPT !.tr = @ \o
                  [i \in 1..n |-> Ev("check_txdone", "wait",
                                     IF i >= first THEN 1 ELSE 0, i, 0)]]]

(***************************************************************************)
(* omap_vc_pre_scale / omap_vc_post_scale: the voltage controller hooks.   *)
(* pre is what the hook answers: [r, target_vsel, current_vsel].           *)
(***************************************************************************)
PreScaleAnswers ==
    {[r |-> 0, target_vsel |-> 16, current_vsel |-> 32],
     [r |-> 0, target_vsel |-> 48, current_vsel |-> 16],
     [r |-> -EINVAL, target_vsel |-> 0, current_vsel |-> 0],
     [r |-> -EIO, target_vsel |-> 0, current_vsel |-> 0]}
\* the call, then what it returned
omap_vc_pre_scale(st, volt, pre) ==
    Log(Log(st, Ev("pre_scale", "vc", volt, 0, 0)),
        Ev("pre_scale_ret", "vc", pre.r, pre.target_vsel, pre.current_vsel))
PreScaleDefault == [r |-> 0, target_vsel |-> 16, current_vsel |-> 32]
\* omap_vc_post_scale called with the two selectors exchanged
omap_vc_post_scale_swapped(st, volt, target_vsel, current_vsel) ==
    Log(st, Ev("post_scale", "vc", volt, current_vsel, target_vsel))
omap_vc_post_scale(st, volt, target_vsel, current_vsel) ==
    Log(st, Ev("post_scale", "vc", volt, target_vsel, current_vsel))

\* what the hardware does during one call of omap_vp_forceupdate_scale:
\* the poll on which idle is first seen, the answer of pre_scale, the
\* attempt on which transaction-done is first seen cleared (before the
\* trigger and in the cleanup) and the poll on which it is first seen set.
\* A phase the call cannot reach (after a timeout or a pre_scale error)
\* is left at 1.
ScaleHw ==
    {h \in [idle : 1..(VP_IDLE_TIMEOUT + 1),
             pre : PreScaleAnswers,
             clr1 : 1..(VP_TRANXDONE_TIMEOUT + 1),
             tx : 1..(VP_TRANXDONE_TIMEOUT + 1),
             clr2 : 1..(VP_TRANXDONE_TIMEOUT + 1)] :
        /\ (h.idle > VP_IDLE_TIMEOUT \/ h.pre.r # 0) => h.clr1 = 1
        /\ (h.clr1 >= VP_TRANXDONE_TIMEOUT) => (h.tx = 1 /\ h.clr2 = 1)
        /\ (h.idle > VP_IDLE_TIMEOUT) => h.pre = PreScaleDefault}
\* a call that stops at its precondition checks sees no hardware
ScaleHwFor(d, target_v) ==
    IF d \in FullDomains /\ target_v # NULL THEN ScaleHw
    ELSE {[idle |-> 1, pre |-> PreScaleDefault, clr1 |-> 1, tx |-> 1,
           clr2 |-> 1]}

\* the force-update trigger without the final write that clears the bit
ScaleTrigger_force_left(d, target_volt, hw, st) ==
    LET iv == _vp_set_init_voltage(st, target_volt)
        s1 == WriteVpconfig(iv.st, iv.vpconfig \cup vpconfig_forceupdate)
        w == WaitTxdone(s1, hw.tx)
        s2 == IF w.timeout >= VP_TRANXDONE_TIMEOUT
              THEN _vp_controlled_err(w.st, d, "TRANXDONE never got set")
              ELSE w.st
        s3 == omap_vc_post_scale(s2, target_volt, hw.pre.target_vsel,
                                 hw.pre.current_vsel)
        c == ClearTxdoneLoop(s3, hw.clr2, 0)
        s4 == IF c.timeout >= VP_TRANXDONE_TIMEOUT
              THEN _vp_controlled_err(c.st, d, "clear TRANXDONE timeout")
              ELSE c.st
    IN [r |-> 0, st |-> s4]

\* the force-update trigger with a cleanup clear whose timeout is ignored
ScaleTrigger_silent_cleanup(d, target_volt, hw, st) ==
    LET iv == _vp_set_init_voltage(st, target_volt)
        s1 == WriteVpconfig(iv.st, iv.vpconfig \cup vpconfig_forceupdate)
        w == WaitTxdone(s1, hw.tx)
        s2 == IF w.timeout >= VP_TRANXDONE_TIMEOUT
              THEN _vp_controlled_err(w.st, d, "TRANXDONE never got set")
              ELSE w.st
        s3 == omap_vc_post_scale(s2, target_volt, hw.pre.target_vsel,
                                 hw.pre.current_vsel)
        c == ClearTxdoneLoop(s3, hw.clr2, 0)
        s5 == WriteVpconfig(c.st, iv.vpconfig)
    IN [r |-> 0, st |-> s5]

(***************************************************************************)
(* omap_vp_forceupdate_scale, from the force-update trigger on             *)
(***************************************************************************)
ScaleTrigger(d, target_volt, hw, st) ==
    LET iv == _vp_set_init_voltage(st, target_volt)
        s1 == WriteVpconfig(iv.st, iv.vpconfig \cup vpconfig_forceupdate)
        w == WaitTxdone(s1, hw.tx)
        s2 == IF w.timeout >= VP_TRANXDONE_TIMEOUT
              THEN _vp_controlled_err(w.st, d, "TRANXDONE never got set")
              ELSE w.st
        s3 == omap_vc_post_scale(s2, target_volt, hw.pre.target_vsel,
                                 hw.pre.current_vsel)
        c == ClearTxdoneLoop(s3, hw.clr2, 0)
        s4 == IF c.timeout >= VP_TRANXDONE_TIMEOUT
              THEN _vp_controlled_err(c.st, d, "clear TRANXDONE timeout")
              ELSE c.st
        s5 == WriteVpconfig(s4, iv.vpconfig)
    IN [r |-> 0, st |-> s5]

(***************************************************************************)
(* omap_vp_forceupdate_scale: clearing the pending transaction-done        *)
(* status before the trigger                                               *)
(***************************************************************************)
ScaleClearPending(d, target_volt, hw, st) ==
    LET c == ClearTxdoneLoop(st, hw.clr1, 0)
    IN IF c.timeout >= VP_TRANXDONE_TIMEOUT
       THEN [r |-> -ETIMEDOUT,
             st |-> _vp_controlled_err(c.st, d, "change aborted")]
       ELSE ScaleTrigger(d, target_volt, hw, c.st)

\* the pre-scale step reporting every failure of the hook as -EINVAL
ScalePreScale_einval(d, target_volt, hw, st) ==
    LET s2 == omap_vc_pre_scale(st, target_volt, hw.pre)
        r == hw.pre.r
    IN IF r # 0
       THEN [r |-> -EINVAL, st |-> s2]
       ELSE ScaleClearPending(d, target_volt, hw, s2)

(***************************************************************************)
(* omap_vp_forceupdate_scale: the pre-scale hook                           *)
(***************************************************************************)
ScalePreScale(d, target_volt, hw, st) ==
    LET s2 == omap_vc_pre_scale(st, target_volt, hw.pre)
        r == hw.pre.r
    IN IF r # 0
       THEN [r |-> r, st |-> s2]
       ELSE ScaleClearPending(d, target_volt, hw, s2)

\* omap_vp_forceupdate_scale returning 0 for a domain without VP instance
omap_vp_forceupdate_scale_novp_ok(d, target_v, hw, st) ==
    IF IS_ERR_OR_NULL(d)
    THEN [r |-> -EINVAL, st |-> Log(st, Ev("pr_err", "no VDD", 0, 0, 0))]
    ELSE IF ~has_write(d)
    THEN [r |-> -EINVAL, st |-> Log(st, Ev("pr_err", "no write", 0, 0, 0))]
    ELSE IF IS_ERR_OR_NULL(target_v)
    THEN [r |-> -EINVAL, st |-> Log(st, Ev("pr_err", "no target", 0, 0, 0))]
    ELSE IF ~has_vp(d)
    THEN [r |-> 0, st |-> Log(st, Ev("pr_err", "no VP", 0, 0, 0))]
    ELSE
    LET target_volt == omap_get_operation_voltage(target_v)
        w == _vp_wait_for_idle(st, hw.idle)
    IN IF w.r # 0
       THEN [r |-> w.r, st |-> _vp_controlled_err(w.st, d, "idle timedout")]
       ELSE ScalePreScale(d, target_volt, hw, w.st)

(***************************************************************************)
(* omap_vp_forceupdate_scale                                               *)
(***************************************************************************)
omap_vp_forceupdate_scale(d, target_v, hw, st) ==
    IF IS_ERR_OR_NULL(d)
    THEN [r |-> -EINVAL, st |-> Log(st, Ev("pr_err", "no VDD", 0, 0, 0))]
    ELSE IF ~has_write(d)
    THEN [r |-> -EINVAL, st |-> Log(st, Ev("pr_err", "no write", 0, 0, 0))]
    ELSE IF IS_ERR_OR_NULL(target_v)
    THEN [r |-> -EINVAL, st |-> Log(st, Ev("pr_err", "no target", 0, 0, 0))]
    ELSE IF ~has_vp(d)
    THEN [r |-> -EINVAL, st |-> Log(st, Ev("pr_err", "no VP", 0, 0, 0))]
    ELSE
    LET target_volt == omap_get_operation_voltage(target_v)
        w == _vp_wait_for_idle(st, hw.idle)
    IN IF w.r # 0
       THEN [r |-> w.r, st |-> _vp_controlled_err(w.st, d, "idle timedout")]
       ELSE ScalePreScale(d, target_volt, hw, w.st)

\* omap_vp_enable without the test of vp->enabled
omap_vp_enable_unguarded(d, curr, en, st) ==
    IF IS_ERR_OR_NULL(d)
    THEN [en |-> en, st |-> Log(st, Ev("pr_err", "no VDD", 0, 0, 0))]
    ELSE IF ~has_vp(d)
    THEN [en |-> en, st |-> Log(st, Ev("pr_err", "no VP", 0, 0, 0))]
    ELSE IF ~has_read(d) \/ ~has_write(d)
    THEN [en |-> en, st |-> Log(st, Ev("pr_err", "no read/write", 0, 0, 0))]
    ELSE IF curr = NULL
    THEN [en |-> en, st |-> Log(st, Ev("pr_warning", "no voltage", 0, 0, 0))]
    ELSE
    LET iv == _vp_set_init_voltage(st, omap_get_operation_voltage(curr))
        s1 == WriteVpconfig(iv.st, iv.vpconfig \cup vpconfig_vpenable)
    IN [en |-> TRUE, st |-> s1]

(***************************************************************************)
(* omap_vp_enable.  curr is what omap_voltage_get_curr_vdata returns.      *)
(* The result carries the new value of vp->enabled in en.                  *)
(***************************************************************************)
omap_vp_enable(d, curr, en, st) ==
    IF IS_ERR_OR_NULL(d)
    THEN [en |-> en, st |-> Log(st, Ev("pr_err", "no VDD", 0, 0, 0))]
    ELSE IF ~has_vp(d)
    THEN [en |-> en, st |-> Log(st, Ev("pr_err", "no VP", 0, 0, 0))]
    ELSE IF ~has_read(d) \/ ~has_write(d)
    THEN [en |-> en, st |-> Log(st, Ev("pr_err", "no read/write", 0, 0, 0))]
    ELSE IF en
    THEN [en |-> en, st |-> st]
    ELSE IF curr = NULL
    THEN [en |-> en, st |-> Log(st, Ev("pr_warning", "no voltage", 0, 0, 0))]
    ELSE
    LET iv == _vp_set_init_voltage(st, omap_get_operation_voltage(curr))
        s1 == WriteVpconfig(iv.st, iv.vpconfig \cup vpconfig_vpenable)
    IN [en |-> TRUE, st |-> s1]

\* omap_vp_disable giving up when its first idle wait times out
omap_vp_disable_abort(d, hw, en, st) ==
    IF IS_ERR_OR_NULL(d)
    THEN [en |-> en, st |-> Log(st, Ev("pr_err", "no VDD", 0, 0, 0))]
    ELSE IF ~has_vp(d)
    THEN [en |-> en, st |-> Log(st, Ev("pr_err", "no VP", 0, 0, 0))]
    ELSE IF ~has_read(d) \/ ~has_write(d)
    THEN [en |-> en, st |-> Log(st, Ev("pr_err", "no read/write", 0, 0, 0))]
    ELSE IF ~en
    THEN [en |-> en,
          st |-> Log(st, Ev("pr_warning", "already disabled", 0, 0, 0))]
    ELSE
    LET w1 == _vp_wait_for_idle(st, hw.idle1)
    IN IF w1.r # 0
       THEN [en |-> en, st |-> Log(w1.st, Ev("pr_warn_ratelimited",
                                             "Ignore and try", 0, 0, 0))]
       ELSE
       LET s2 == Log(w1.st, EvRead("vpconfig", FALSE))
           s3 == WriteVpconfig(s2, s2.cfg \cap BitNot(vpconfig_vpenable))
           w2 == _vp_wait_for_idle(s3, hw.idle2)
           s4 == IF w2.r # 0
                 THEN Log(w2.st, Ev("pr_warn_ratelimited", "after disable",
                                    0, 0, 0))
                 ELSE w2.st
       IN [en |-> FALSE, st |-> s4]

(***************************************************************************)
(* omap_vp_disable.  hw.idle1 and hw.idle2 are the polls on which the two  *)
(* idle waits first see the VP idle.                                       *)
(***************************************************************************)
omap_vp_disable(d, hw, en, st) ==
    IF IS_ERR_OR_NULL(d)
    THEN [en |-> en, st |-> Log(st, Ev("pr_err", "no VDD", 0, 0, 0))]
    ELSE IF ~has_vp(d)
    THEN [en |-> en, st |-> Log(st, Ev("pr_err", "no VP", 0, 0, 0))]
    ELSE IF ~has_read(d) \/ ~has_write(d)
    THEN [en |-> en, st |-> Log(st, Ev("pr_err", "no read/write", 0, 0, 0))]
    ELSE IF ~en
    THEN [en |-> en,
          st |-> Log(st, Ev("pr_warning", "already disabled", 0, 0, 0))]
    ELSE
    LET w1 == _vp_wait_for_idle(st, hw.idle1)
        s1 == IF w1.r # 0
              THEN Log(w1.st, Ev("pr_warn_ratelimited", "Ignore and try",
                                 0, 0, 0))
              ELSE w1.st
        s2 == Log(s1, EvRead("vpconfig", FALSE))
        s3 == WriteVpconfig(s2, s2.cfg \cap BitNot(vpconfig_vpenable))
        w2 == _vp_wait_for_idle(s3, hw.idle2)
        s4 == IF w2.r # 0
              THEN Log(w2.st, Ev("pr_warn_ratelimited", "after disable",
                                 0, 0, 0))
              ELSE w2.st
    IN [en |-> FALSE, st |-> s4]

DisableHw ==
    [idle1 : 1..(VP_IDLE_TIMEOUT + 1), idle2 : 1..(VP_IDLE_TIMEOUT + 1)]
\* a call that does not reach the idle waits sees no hardware
DisableHwFor(d, en) ==
    IF d \in FullDomains /\ en THEN DisableHw
    ELSE {[idle1 |-> 1, idle2 |-> 1]}

(***************************************************************************)
(* PRM instance registers (prminst44xx.c).  The model has the reset        *)
(* control registers of two modules, each followed by its reset status     *)
(* register, in one instance of the PRM partition.                         *)
(***************************************************************************)
RstCtrlOffsets == {16, 24}
\* the last reset control register a u16 offset can name whose status
\* register, 4 bytes further, lies beyond the u16 range
EdgeRstCtrlOffset == 65532
AllRstCtrlOffsets == RstCtrlOffsets \cup {EdgeRstCtrlOffset}
\* the registers of an instance: each reset control register with its
\* status register, and the registers at offsets 0 and 4 (in the device
\* instance the global reset control and status registers)
PrmRegs == {0, 4, 16, 20, 24, 28, 65532, 65536}
Shifts == {0, 1}
\* partition ids (prcm44xx.h)
OMAP4430_INVALID_PRCM_PARTITION == 0
PRM_PARTITION == 1
OMAP4430_SCRM_PARTITION == 4
OMAP4430_PRCM_MPU_PARTITION == 5
OMAP4_MAX_PRCM_PARTITIONS == 6
\* the instance of the calls
PrmInst == 1024
\* the device instances and their global reset registers (prm44xx.h,
\* prm54xx.h, prm-regbits-44xx.h)
OMAP4430_PRM_DEVICE_INST == 6912
OMAP54XX_PRM_DEVICE_INST == 7168
OMAP4_PRM_RSTCTRL_OFFSET == 0
OMAP4_RM_RSTCTRL == 0
OMAP4_RM_RSTST == 4
OMAP4430_RST_GLOBAL_WARM_SW_MASK == {0}
OMAP4430_RST_GLOBAL_COLD_SW_MASK == {1}
OMAP4430_GLOBAL_COLD_RST_MASK == {0}
\* reset status registers clear the bits written as 1 and keep the others
IsRstStatusReg(idx) ==
    \/ (idx - OMAP4_RST_CTRL_ST_OFFSET) \in AllRstCtrlOffsets
    \/ idx = OMAP4_RM_RSTST
\* the running state of a call: the registers, _prm_bases, whether BUG_ON
\* stopped the program, the values written and the events so far
PrmCtx(regs) == [regs |-> regs, bases |-> prm_bases, bug |-> FALSE,
                 wr |-> << >>, tr |-> << >>]

\* omap4_prm_base_init: globals holds the three bases of omap2_globals
omap4_prm_base_init(bases, globals) ==
    [bases EXCEPT ![PRM_PARTITION] = globals.prm,
                  ![OMAP4430_PRCM_MPU_PARTITION] = globals.prcm_mpu,
                  ![OMAP4430_SCRM_PARTITION] = globals.scrm]

\* the condition of the BUG_ON without the test of the base
PartitionOutOfRange(bases, part) ==
    \/ part >= OMAP4_MAX_PRCM_PARTITIONS
    \/ part = OMAP4430_INVALID_PRCM_PARTITION

\* the condition of the BUG_ON of the register accessors (part is a u8)
PartitionUnusable(bases, part) ==
    \/ part >= OMAP4_MAX_PRCM_PARTITIONS
    \/ part = OMAP4430_INVALID_PRCM_PARTITION
    \/ bases[part] = 0
\* BUG_ON(cond): stops the program for good
BUG_ON(st, part) ==
    [Log(st, EvPrm("BUG", part, 0, 0)) EXCEPT !.bug = TRUE]

\* omap4_prminst_read_inst_reg
omap4_prminst_read_inst_reg(st, part, inst, idx) ==
    IF st.bug THEN [v |-> {}, st |-> st]
    ELSE IF PartitionUnusable(st.bases, part)
    THEN [v |-> {}, st |-> BUG_ON(st, part)]
    ELSE [v |-> st.regs[idx], st |-> Log(st, EvPrm("read", part, inst, idx))]

\* omap4_prminst_write_inst_reg
omap4_prminst_write_inst_reg(st, val, part, inst, idx) ==
    IF st.bug THEN st
    ELSE IF PartitionUnusable(st.bases, part) THEN BUG_ON(st, part)
    ELSE
    [st EXCEPT !.regs[idx] = IF IsRstStatusReg(idx) THEN @ \ val ELSE val,
               !.wr = Append(@, [r |-> "prm", idx |-> idx, val |-> val]),
               !.tr = Append(@, EvPrm("write", part, inst, idx))]

\* omap4_prminst_rmw_inst_reg_bits setting only the bits that lie in mask
omap4_prminst_rmw_inst_reg_bits_in_mask(st, mask, bits, part, inst, idx) ==
    LET rd == omap4_prminst_read_inst_reg(st, part, inst, idx)
        v == (rd.v \cap BitNot(mask)) \cup (bits \cap mask)
    IN [v |-> v, st |-> omap4_prminst_write_inst_reg(rd.st, v, part, inst, idx)]

\* v &= ~mask; v |= bits, writing back only the bits argument
RmwValue_bits_only(v, mask, bits) == bits
\* v &= ~mask; v |= bits
RmwValue(v, mask, bits) == (v \cap BitNot(mask)) \cup bits

\* omap4_prminst_rmw_inst_reg_bits
omap4_prminst_rmw_inst_reg_bits(st, mask, bits, part, inst, idx) ==
    LET rd == omap4_prminst_read_inst_reg(st, part, inst, idx)
        v == RmwValue(rd.v, mask, bits)
    IN [v |-> v, st |-> omap4_prminst_write_inst_reg(rd.st, v, part, inst, idx)]

\* omap4_prminst_is_hardreset_asserted
omap4_prminst_is_hardreset_asserted(st, shift, part, inst, rstctrl_offs) ==
    LET rd == omap4_prminst_read_inst_reg(st, part, inst, rstctrl_offs)
        v == Shr(rd.v \cap Shl({0}, shift), shift)
    IN [v |-> IF 0 \in v THEN 1 ELSE 0, st |-> rd.st]

\* omap4_prminst_assert_hardreset
omap4_prminst_assert_hardreset(st, shift, part, inst, rstctrl_offs) ==
    LET mask == Shl({0}, shift)
    IN [r |-> 0,
        st |-> omap4_prminst_rmw_inst_reg_bits(st, mask, mask, part, inst,
                                               rstctrl_offs).st]

(***************************************************************************)
(* The hardware of a reset line (module control register line.offs, bit    *)
(* line.shift): once the control bit is clear, it shows the status bit of  *)
(* the line in time for poll number k of the status register.              *)
(***************************************************************************)
HwResetStatus(st, line, k, poll) ==
    IF poll >= k /\ line.shift \notin st.regs[line.offs]
    THEN [st EXCEPT !.regs[line.offs + OMAP4_RST_CTRL_ST_OFFSET] =
                        @ \cup {line.shift}]
    ELSE st

\* omap_test_timeout(omap4_prminst_is_hardreset_asserted(shift, part, inst,
\*                   rstst_offs), MAX_MODULE_HARDRESET_WAIT, c)
RECURSIVE ResetStatusWait(_, _, _, _, _, _, _, _)
ResetStatusWait(st, shift, part, inst, rstst_offs, line, k, c) ==
    IF st.bug THEN [c |-> c, st |-> st]
    ELSE IF c < MAX_MODULE_HARDRESET_WAIT
    THEN LET hw == HwResetStatus(st, line, k, c + 1)
             a == omap4_prminst_is_hardreset_asserted(hw, shift, part, inst,
                                                      rstst_offs)
             s1 == [a.st EXCEPT !.tr[Len(a.st.tr)].v = a.v,
                                !.tr[Len(a.st.tr)].b = c + 1]
         IN IF a.v # 0 THEN [c |-> c, st |-> s1]
            ELSE ResetStatusWait(s1, shift, part, inst, rstst_offs, line, k,
                                 c + 1)
    ELSE [c |-> c, st |-> st]

\* omap4_prminst_deassert_hardreset without the check of the current state
omap4_prminst_deassert_hardreset_unchecked(st, shift, part, inst, rstctrl_offs, k) ==
    LET mask == Shl({0}, shift)
        rstst_offs == (rstctrl_offs + OMAP4_RST_CTRL_ST_OFFSET) % 65536
        line == [offs |-> rstctrl_offs, shift |-> shift]
        s1 == omap4_prminst_rmw_inst_reg_bits(st, Word, mask, part, inst,
                                              rstst_offs).st
        s2 == omap4_prminst_rmw_inst_reg_bits(s1, mask, {}, part, inst,
                                              rstctrl_offs).st
        w == ResetStatusWait(s2, shift, part, inst, rstst_offs, line, k, 0)
    IN [r |-> IF w.c = MAX_MODULE_HARDRESET_WAIT THEN -EBUSY ELSE 0,
        st |-> w.st]

\* omap4_prminst_deassert_hardreset reporting -EBUSY one poll early
omap4_prminst_deassert_hardreset_early(st, shift, part, inst, rstctrl_offs, k) ==
    LET mask == Shl({0}, shift)
        rstst_offs == (rstctrl_offs + OMAP4_RST_CTRL_ST_OFFSET) % 65536
        line == [offs |-> rstctrl_offs, shift |-> shift]
        a == omap4_prminst_is_hardreset_asserted(st, shift, part, inst,
                                                 rstctrl_offs)
    IN IF a.v = 0
       THEN [r |-> -EEXIST, st |-> a.st]
       ELSE
       LET s1 == omap4_prminst_rmw_inst_reg_bits(a.st, Word, mask, part, inst,
                                                 rstst_offs).st
           s2 == omap4_prminst_rmw_inst_reg_bits(s1, mask, {}, part, inst,
                                                 rstctrl_offs).st
           w == ResetStatusWait(s2, shift, part, inst, rstst_offs, line, k, 0)
       IN [r |-> IF w.c + 1 >= MAX_MODULE_HARDRESET_WAIT THEN -EBUSY ELSE 0,
           st |-> w.st]

\* omap4_prminst_deassert_hardreset clearing the whole control register
omap4_prminst_deassert_hardreset_clears_all(st, shift, part, inst, rstctrl_offs, k) ==
    LET mask == Shl({0}, shift)
        rstst_offs == (rstctrl_offs + OMAP4_RST_CTRL_ST_OFFSET) % 65536
        line == [offs |-> rstctrl_offs, shift |-> shift]
        a == omap4_prminst_is_hardreset_asserted(st, shift, part, inst,
                                                 rstctrl_offs)
    IN IF a.v = 0
       THEN [r |-> -EEXIST, st |-> a.st]
       ELSE
       LET s1 == omap4_prminst_rmw_inst_reg_bits(a.st, Word, mask, part, inst,
                                                 rstst_offs).st
           s2 == omap4_prminst_rmw_inst_reg_bits(s1, Word, {}, part, inst,
                                                 rstctrl_offs).st
           w == ResetStatusWait(s2, shift, part, inst, rstst_offs, line, k, 0)
       IN [r |-> IF w.c = MAX_MODULE_HARDRESET_WAIT THEN -EBUSY ELSE 0,
           st |-> w.st]

(***************************************************************************)
(* omap4_prminst_deassert_hardreset                                        *)
(***************************************************************************)
omap4_prminst_deassert_hardreset(st, shift, part, inst, rstctrl_offs, k) ==
    LET mask == Shl({0}, shift)
        rstst_offs == (rstctrl_offs + OMAP4_RST_CTRL_ST_OFFSET) % 65536
        line == [offs |-> rstctrl_offs, shift |-> shift]
        a == omap4_prminst_is_hardreset_asserted(st, shift, part, inst,
                                                 rstctrl_offs)
    IN IF a.v = 0
       THEN [r |-> -EEXIST, st |-> a.st]
       ELSE
       LET s1 == omap4_prminst_rmw_inst_reg_bits(a.st, Word, mask, part, inst,
                                                 rstst_offs).st
           s2 == omap4_prminst_rmw_inst_reg_bits(s1, mask, {}, part, inst,
                                                 rstctrl_offs).st
           w == ResetStatusWait(s2, shift, part, inst, rstst_offs, line, k, 0)
       IN [r |-> IF w.c = MAX_MODULE_HARDRESET_WAIT THEN -EBUSY ELSE 0,
           st |-> w.st]

(***************************************************************************)
(* Counting over the events of a call                                      *)
(***************************************************************************)
Count(tr, P(_)) == Cardinality({i \in 1..Len(tr) : P(tr[i])})
\* errors routed through _vp_controlled_err: each logs exactly one of
\* dump_stack (full verbosity) or pr_err_ratelimited
IsRouted(ev) == ev.e \in {"dump_stack", "pr_err_ratelimited"}
IsRecover(ev) == ev.e = "recover"
NumRouted(tr) == Count(tr, IsRouted)
\* routed errors of domains with a recovery callback
NumRecoverable(tr, d) == IF d # NULL /\ has_recover(d) THEN NumRouted(tr) ELSE 0
RecoverCallsAfter(rc, tr) ==
    [d \in Domains |->
        rc[d] + Cardinality({i \in 1..Len(tr) :
                               tr[i].e = "recover" /\ tr[i].r = d})]

\* the running state at the entry of a call on domain d
Entry(d, cfgs, msg, rec) == Ctx(IF d = NULL THEN {} ELSE cfgs[d], msg, rec)
\* vp->enabled of the domain a call is made on
EnabledOf(d, en) == IF d = NULL THEN FALSE ELSE en[d]

\* the call being recorded: operation and arguments (k: the poll on which
\* the hardware shows the reset status bit)
Call(op, d, target) ==
    [op |-> op, dom |-> d, target |-> target, shift |-> 0, offs |-> 0, k |-> 0]
CallRst(op, shift, offs, k) ==
    [op |-> op, dom |-> NULL, target |-> NULL, shift |-> shift,
     offs |-> offs, k |-> k]

(***************************************************************************)
(* State after construction: the partition bases are those the platform    *)
(* code has registered with omap4_prm_base_init                            *)
(***************************************************************************)
\* static void __iomem *_prm_bases[OMAP4_MAX_PRCM_PARTITIONS], zeroed
NoBases == [p \in 0..(OMAP4_MAX_PRCM_PARTITIONS - 1) |-> 0]
\* the step, limit registers of a VP before omap_vp_init wrote them
NoVpRegs == [vstepmin |-> {}, vstepmax |-> {}, vlimitto |-> {}]
\* threads of the step-by-step specifications, and their locals
Threads == {1, 2}
NoLocal == [v |-> {}, mask |-> {}, bits |-> {}, msg |-> 0, rec |-> 0,
            n |-> 0, to |-> 0, ph |-> 0, op |-> "none", dom |-> NULL]
InitExceptBases ==
    /\ vpconfig = [d \in CfgDomains |-> {}]
    /\ enabled = [d \in CfgDomains |-> FALSE]
    /\ vp_debug_error_message_count = _MAX_COUNT_ERR
    /\ vp_recover_count = _MAX_RETRIES_BEFORE_RECOVER
    /\ call = Call("none", NULL, NULL)
    /\ ret = 0
    /\ trace = << >>
    /\ written = << >>
    /\ nRouted = 0
    /\ nRecoverable = 0
    /\ recoverCalls = [d \in Domains |-> 0]
    /\ prm_regs = [idx \in PrmRegs |-> {}]
    /\ vp_regs = [d \in CfgDomains |-> NoVpRegs]
    /\ retv = {}
    /\ pc = [t \in Threads |-> "idle"]
    /\ local = [t \in Threads |-> NoLocal]
    /\ lock = 0

Init ==
    /\ InitExceptBases
    /\ prm_bases = omap4_prm_base_init(NoBases, [prm |-> 1, prcm_mpu |-> 1,
                                                   scrm |-> 1])

(***************************************************************************)
(* A call of omap_vp_forceupdate_scale                                     *)
(***************************************************************************)
ForceUpdateScale ==
    /\ call.op = "none"
    /\ \E d \in ScaleDomPtrs, target_v \in TargetPtrs :
      \E hw \in ScaleHwFor(d, target_v) :
        \E res \in {omap_vp_forceupdate_scale(d, target_v, hw,
                        Entry(d, vpconfig, vp_debug_error_message_count,
                              vp_recover_count))} :
           /\ nRouted + NumRouted(res.st.tr) <= MaxRouted
           /\ vpconfig' = IF d = NULL THEN vpconfig
                          ELSE [vpconfig EXCEPT ![d] = res.st.cfg]
           /\ vp_debug_error_message_count' = res.st.msg
           /\ vp_recover_count' = res.st.rec
           /\ call' = Call("forceupdate_scale", d, target_v)
           /\ ret' = res.r
           /\ trace' = res.st.tr
           /\ written' = res.st.wr
           /\ nRouted' = nRouted + NumRouted(res.st.tr)
           /\ nRecoverable' = nRecoverable + NumRecoverable(res.st.tr, d)
           /\ recoverCalls' = RecoverCallsAfter(recoverCalls, res.st.tr)
           /\ UNCHANGED <<enabled, prm_regs>>
           /\ UNCHANGED <<prm_bases, vp_regs, retv, steps>>

(***************************************************************************)
(* The call returns to its caller: the record of the call is dropped.      *)
(* A call that BUG_ON stopped never returns.                               *)
(***************************************************************************)
Bugged(tr) == \E i \in 1..Len(tr) : tr[i].e = "BUG"
Return ==
    /\ call.op # "none"
    /\ ~Bugged(trace)
    /\ call' = Call("none", NULL, NULL)
    /\ ret' = 0
    /\ retv' = {}
    /\ trace' = << >>
    /\ written' = << >>
    /\ UNCHANGED <<vpconfig, enabled, vp_debug_error_message_count,
                   vp_recover_count, nRouted, nRecoverable, recoverCalls,
                   prm_regs>>
    /\ UNCHANGED <<prm_bases, vp_regs, steps>>

(***************************************************************************)
(* A call of omap_vp_enable                                                *)
(***************************************************************************)
Enable ==
    /\ call.op = "none"
    /\ \E d \in ScaleDomPtrs, curr \in TargetPtrs :
        \E res \in {omap_vp_enable(d, curr, EnabledOf(d, enabled),
                        Entry(d, vpconfig, vp_debug_error_message_count,
                              vp_recover_count))} :
           /\ vpconfig' = IF d = NULL THEN vpconfig
                          ELSE [vpconfig EXCEPT ![d] = res.st.cfg]
           /\ enabled' = IF d = NULL THEN enabled
                         ELSE [enabled EXCEPT ![d] = res.en]
           /\ vp_debug_error_message_count' = res.st.msg
           /\ vp_recover_count' = res.st.rec
           /\ call' = Call("enable", d, curr)
           /\ ret' = 0
           /\ trace' = res.st.tr
           /\ written' = res.st.wr
           /\ UNCHANGED <<nRouted, nRecoverable, recoverCalls, prm_regs>>
           /\ UNCHANGED <<prm_bases, vp_regs, retv, steps>>

(***************************************************************************)
(* A call of omap_vp_disable                                               *)
(***************************************************************************)
Disable ==
    /\ call.op = "none"
    /\ \E d \in ScaleDomPtrs :
      \E hw \in DisableHwFor(d, EnabledOf(d, enabled)) :
        \E res \in {omap_vp_disable(d, hw, EnabledOf(d, enabled),
                        Entry(d, vpconfig, vp_debug_error_message_count,
                              vp_recover_count))} :
           /\ vpconfig' = IF d = NULL THEN vpconfig
                          ELSE [vpconfig EXCEPT ![d] = res.st.cfg]
           /\ enabled' = IF d = NULL THEN enabled
                         ELSE [enabled EXCEPT ![d] = res.en]
           /\ vp_debug_error_message_count' = res.st.msg
           /\ vp_recover_count' = res.st.rec
           /\ call' = Call("disable", d, NULL)
           /\ ret' = 0
           /\ trace' = res.st.tr
           /\ written' = res.st.wr
           /\ nRouted' = nRouted + NumRouted(res.st.tr)
           /\ nRecoverable' = nRecoverable + NumRecoverable(res.st.tr, d)
           /\ recoverCalls' = RecoverCallsAfter(recoverCalls, res.st.tr)
           /\ UNCHANGED prm_regs
           /\ UNCHANGED <<prm_bases, vp_regs, retv, steps>>

Next == ForceUpdateScale \/ Enable \/ Disable \/ Return

Spec == Init /\ [][Next]_vars

(***************************************************************************)
(* The error path alone: one error routed through _vp_controlled_err for   *)
(* domain d (any timeout of a scaling call)                                *)
(***************************************************************************)
ReportErr ==
    /\ nRouted < MaxErrInjected
    /\ \E d \in FullDomains :
        \E st1 \in {_vp_controlled_err(
                        Entry(d, vpconfig, vp_debug_error_message_count,
                              vp_recover_count), d, "timeout")} :
           /\ vp_debug_error_message_count' = st1.msg
           /\ vp_recover_count' = st1.rec
           /\ call' = Call("controlled_err", d, NULL)
           /\ ret' = 0
           /\ trace' = st1.tr
           /\ written' = st1.wr
           /\ nRouted' = nRouted + 1
           /\ nRecoverable' = nRecoverable + (IF has_recover(d) THEN 1 ELSE 0)
           /\ recoverCalls' = RecoverCallsAfter(recoverCalls, st1.tr)
           /\ UNCHANGED <<vpconfig, enabled, prm_regs>>
           /\ UNCHANGED <<prm_bases, vp_regs, retv, steps>>

NextErr == ReportErr

SpecErr == Init /\ [][NextErr]_vars

(***************************************************************************)
(* Calls of the reset line controller                                      *)
(***************************************************************************)
AssertHardreset ==
    /\ call.op = "none"
    /\ \E shift \in Shifts, offs \in RstCtrlOffsets :
        \E res \in {omap4_prminst_assert_hardreset(PrmCtx(prm_regs), shift,
                        PRM_PARTITION, PrmInst, offs)} :
           /\ prm_regs' = res.st.regs
           /\ call' = CallRst("assert_hardreset", shift, offs, 0)
           /\ ret' = res.r
           /\ trace' = res.st.tr
           /\ written' = res.st.wr
           /\ UNCHANGED <<vpconfig, enabled, vp_debug_error_message_count,
                          vp_recover_count, nRouted, nRecoverable,
                          recoverCalls>>
           /\ UNCHANGED <<prm_bases, vp_regs, retv, steps>>

DeassertHardreset ==
    /\ call.op = "none"
    /\ \E shift \in Shifts, offs \in RstCtrlOffsets,
       k \in 1..(MAX_MODULE_HARDRESET_WAIT + 1) :
        \E res \in {omap4_prminst_deassert_hardreset(PrmCtx(prm_regs), shift,
                        PRM_PARTITION, PrmInst, offs, k)} :
           /\ prm_regs' = res.st.regs
           /\ call' = CallRst("deassert_hardreset", shift, offs, k)
           /\ ret' = res.r
           /\ trace' = res.st.tr
           /\ written' = res.st.wr
           /\ UNCHANGED <<vpconfig, enabled, vp_debug_error_message_count,
                          vp_recover_count, nRouted, nRecoverable,
                          recoverCalls>>
           /\ UNCHANGED <<prm_bases, vp_regs, retv, steps>>

NextRst == AssertHardreset \/ DeassertHardreset \/ Return

SpecRst == Init /\ [][NextRst]_vars

(***************************************************************************)
(* Observations on the recorded call                                       *)
(***************************************************************************)
IsScale == call.op = "forceupdate_scale"
IsWrite(ev) == ev.e = "write"
IsRegRead(ev) == ev.e = "read"
IsPreScale(ev) == ev.e = "pre_scale"
IsPostScale(ev) == ev.e = "post_scale"
IsClear(ev) == ev.e = "clear_txdone"
IsHook(ev) == ev.e \in {"pre_scale", "post_scale", "clear_txdone",
                        "check_txdone", "recover"}
NumWrites(tr) == Count(tr, IsWrite)
\* the idle wait saw the VP idle
IdleSeen(tr) ==
    \E i \in 1..Len(tr) :
        tr[i].e = "read" /\ tr[i].r = "vstatus" /\ tr[i].v = 1
\* the last permitted poll of an idle wait still saw the VP busy
IsIdleTimeout(ev) ==
    ev.e = "read" /\ ev.r = "vstatus" /\ ev.a = VP_IDLE_TIMEOUT /\ ev.v = 0
\* the last permitted attempt of a clear loop still saw the status pending
IsClearTimeout(ev) ==
    /\ ev.e = "check_txdone" /\ ev.r = "clear"
    /\ ev.a = VP_TRANXDONE_TIMEOUT /\ ev.v = 1
\* the last permitted poll for transaction-done still saw it unset
IsWaitTimeout(ev) ==
    /\ ev.e = "check_txdone" /\ ev.r = "wait"
    /\ ev.a = VP_TRANXDONE_TIMEOUT /\ ev.v = 0
IsPollTimeout(ev) == IsIdleTimeout(ev) \/ IsClearTimeout(ev) \/ IsWaitTimeout(ev)
\* pre_scale returned success / an error
PreScaleOk(tr) ==
    \E i \in 1..Len(tr) : tr[i].e = "pre_scale_ret" /\ tr[i].v = 0
PreScaleErr(tr) ==
    \E i \in 1..Len(tr) : tr[i].e = "pre_scale_ret" /\ tr[i].v # 0
\* positions of the transaction-done checks made before the first write
PreClearChecks(tr) ==
    {i \in 1..Len(tr) :
        /\ tr[i].e = "check_txdone" /\ tr[i].r = "clear"
        /\ \A j \in 1..i : ~IsWrite(tr[j])}
\* the pre-trigger clear step reported its timeout
ClearAborted(tr) ==
    \E i \in 1..Len(tr) :
        tr[i].e \in {"pr_err", "pr_err_ratelimited"} /\ tr[i].r = "change aborted"
\* the event at position i is directly followed by an error routed through
\* _vp_controlled_err (after the warning _vp_wait_for_idle itself prints)
RoutedAfter(tr, i) ==
    LET j == IF i + 1 <= Len(tr) /\ tr[i + 1].e = "pr_warn_ratelimited"
                /\ tr[i + 1].r = "idle"
             THEN i + 2 ELSE i + 1
    IN /\ j <= Len(tr)
       /\ \/ tr[j].e = "pr_err_ratelimited"
          \/ tr[j].e = "pr_err" /\ j + 1 <= Len(tr) /\ tr[j + 1].e = "dump_stack"
\* the counters after n errors routed for domain d, from msg and rec
MsgAfter(msg, n) == IF msg >= n THEN msg - n ELSE 0
RecAfter(rec, n, d) ==
    IF d # NULL /\ has_recover(d)
    THEN ((rec - 1 - n) % _MAX_RETRIES_BEFORE_RECOVER) + 1
    ELSE rec

C2_IdleTimeout ==
    (IsScale /\ \E i \in 1..Len(trace) : IsIdleTimeout(trace[i])) =>
      /\ ret = -ETIMEDOUT
      /\ NumRouted(trace) = 1
      /\ \E i \in 1..Len(trace) :
            IsIdleTimeout(trace[i]) /\ RoutedAfter(trace, i)
      /\ NumWrites(trace) = 0
      /\ Count(trace, IsPreScale) = 0
      /\ Count(trace, IsPostScale) = 0

\* C2 witness: an idle wait that timed out after VP_IDLE_TIMEOUT polls
C2_Witness ==
    /\ IsScale /\ ret = -ETIMEDOUT
    /\ \E i \in 1..Len(trace) : IsIdleTimeout(trace[i])
    /\ Count(trace, IsRegRead) = VP_IDLE_TIMEOUT

(***************************************************************************)
(* C3: the pre-trigger clear step returns -ETIMEDOUT exactly when          *)
(* transaction-done is still pending after the last of the                 *)
(* VP_TRANXDONE_TIMEOUT attempts; then one error is routed and nothing is  *)
(* written and post_scale is not called.  If any attempt, the last one     *)
(* included, sees the status cleared, the call goes on to write the        *)
(* initial-voltage configuration.                                          *)
(***************************************************************************)
C3_AbortIffStillPending ==
    (IsScale /\ PreScaleOk(trace)) =>
      LET pendingAfterLast ==
              \E i \in PreClearChecks(trace) : IsClearTimeout(trace[i])
          cleared == \E i \in PreClearChecks(trace) : trace[i].v = 0
      IN /\ (ret = -ETIMEDOUT) <=> pendingAfterLast
         /\ pendingAfterLast =>
               /\ NumRouted(trace) = 1
               /\ NumWrites(trace) = 0
               /\ Count(trace, IsPostScale) = 0
         /\ cleared => NumWrites(trace) > 0

(***************************************************************************)
(* C4: force_update_scale returns -EINVAL, with no register access, no     *)
(* hook call and both counters unchanged, when the domain is null, has no  *)
(* write accessor, has no VP instance, or the target descriptor is absent. *)
(***************************************************************************)
ScaleArgsInvalid(c) ==
    \/ c.dom = NULL
    \/ ~has_write(c.dom)
    \/ c.target = NULL
    \/ ~has_vp(c.dom)
C4_InvalidArgument ==
    [][(call'.op = "forceupdate_scale" /\ ScaleArgsInvalid(call')) =>
          /\ ret' = -EINVAL
          /\ Count(trace', IsRegRead) = 0
          /\ NumWrites(trace') = 0
          /\ Count(trace', IsHook) = 0
          /\ vp_debug_error_message_count' = vp_debug_error_message_count
          /\ vp_recover_count' = vp_recover_count
          /\ vpconfig' = vpconfig]_vars

\* C4 witness: a call on a domain without VP instance was rejected
C4_Witness ==
    /\ IsScale /\ call.dom = "novp" /\ call.target # NULL
    /\ ret = -EINVAL

(***************************************************************************)
(* C5: when pre_scale returns an error, force_update_scale returns that    *)
(* very value, clears no transaction-done status, writes nothing, does not *)
(* call post_scale and leaves both counters unchanged.                     *)
(***************************************************************************)
C5_PreScaleErrorVerbatim ==
    [][(call'.op = "forceupdate_scale" /\ PreScaleErr(trace')) =>
          /\ \E i \in 1..Len(trace') :
                trace'[i].e = "pre_scale_ret" /\ ret' = trace'[i].v
          /\ Count(trace', IsClear) = 0
          /\ NumWrites(trace') = 0
          /\ Count(trace', IsPostScale) = 0
          /\ vp_debug_error_message_count' = vp_debug_error_message_count
          /\ vp_recover_count' = vp_recover_count]_vars

\* C5 witness: pre_scale failed with -EIO and the call returned -EIO
C5_Witness ==
    /\ IsScale /\ PreScaleErr(trace) /\ ret = -EIO

(***************************************************************************)
(* C8 as claimed: every polling timeout, in force_update_scale and in      *)
(* disable, is directly followed by an error routed through                *)
(* _vp_controlled_err.                                                     *)
(***************************************************************************)
C8_EveryTimeoutRouted ==
    call.op \in {"forceupdate_scale", "disable"} =>
      \A i \in 1..Len(trace) :
          IsPollTimeout(trace[i]) => RoutedAfter(trace, i)

(***************************************************************************)
(* C8 amended: every polling timeout of force_update_scale (idle wait,     *)
(* pre-trigger clear, post-trigger wait, cleanup clear) is routed through  *)
(* _vp_controlled_err and the routed errors consume the message budget     *)
(* and, for a domain with recovery callback, the recovery counter; the     *)
(* idle-wait timeouts of disable are only warned about and leave both      *)
(* counters unchanged.                                                     *)
(***************************************************************************)
C8_ScaleTimeoutsRouted ==
    [][/\ call'.op = "forceupdate_scale" =>
            /\ \A i \in 1..Len(trace') :
                  IsPollTimeout(trace'[i]) => RoutedAfter(trace', i)
            /\ vp_debug_error_message_count' =
                  MsgAfter(vp_debug_error_message_count, NumRouted(trace'))
            /\ vp_recover_count' =
                  RecAfter(vp_recover_count, NumRouted(trace'), call'.dom)
       /\ call'.op = "disable" =>
            /\ NumRouted(trace') = 0
            /\ vp_debug_error_message_count' = vp_debug_error_message_count
            /\ vp_recover_count' = vp_recover_count]_vars

\* C8 witness: a disable whose two idle waits both timed out, and a
\* force_update_scale with a timeout, were both seen
C8_Witness ==
    /\ call.op = "disable"
    /\ Count(trace, IsIdleTimeout) = 2
    /\ nRouted > 0

(***************************************************************************)
(* C6: the recovery counter is decremented only by errors of domains whose *)
(* VP has a recovery callback; the callback is called exactly once on each *)
(* _MAX_RETRIES_BEFORE_RECOVER-th such error, for the domain that reports  *)
(* it, and the counter is back at _MAX_RETRIES_BEFORE_RECOVER right after. *)
(* nRecoverable counts the errors routed for domains with a callback.      *)
(***************************************************************************)
SumRecoverCalls(rc) == rc["core"] + rc["iva"] + rc["mpu"] + rc["nowrite"] + rc["novp"]
C6_RecoveryCadence ==
    [][call'.op = "controlled_err" =>
        LET d == call'.dom
        IN /\ ~has_recover(d) =>
                /\ vp_recover_count' = vp_recover_count
                /\ recoverCalls' = recoverCalls
           /\ has_recover(d) =>
                IF (nRecoverable + 1) % _MAX_RETRIES_BEFORE_RECOVER = 0
                THEN /\ recoverCalls' = [recoverCalls EXCEPT ![d] = @ + 1]
                     /\ vp_recover_count' = _MAX_RETRIES_BEFORE_RECOVER
                ELSE /\ recoverCalls' = recoverCalls
                     /\ vp_recover_count' = vp_recover_count - 1
           /\ SumRecoverCalls(recoverCalls') =
                nRecoverable' \div _MAX_RETRIES_BEFORE_RECOVER]_vars

\* C6 witness: 2 * N2 errors of domains with a callback, mixed with errors
\* of a domain without one, fired the callback twice, once per domain
C6_Witness ==
    /\ call.op = "controlled_err"
    /\ nRecoverable = 2 * _MAX_RETRIES_BEFORE_RECOVER
    /\ nRouted > nRecoverable
    /\ recoverCalls["core"] = 1 /\ recoverCalls["iva"] = 1
    /\ vp_recover_count = _MAX_RETRIES_BEFORE_RECOVER

(***************************************************************************)
(* C7: exactly the first _MAX_COUNT_ERR errors routed through the error    *)
(* path, whatever their domain, are logged with pr_err and a stack dump;   *)
(* every later one is logged rate-limited.  The message counter never      *)
(* increases and stays at 0 once it got there.                             *)
(***************************************************************************)
C7_MessageBudget ==
    [][call'.op = "controlled_err" =>
        /\ IF nRouted < _MAX_COUNT_ERR
           THEN /\ Len(trace') >= 2
                /\ trace'[1].e = "pr_err" /\ trace'[2].e = "dump_stack"
                /\ \A i \in 1..Len(trace') :
                      trace'[i].e # "pr_err_ratelimited"
           ELSE /\ Len(trace') >= 1
                /\ trace'[1].e = "pr_err_ratelimited"
                /\ \A i \in 1..Len(trace') :
                      trace'[i].e \notin {"pr_err", "dump_stack"}
        /\ vp_debug_error_message_count' <= vp_debug_error_message_count
        /\ vp_debug_error_message_count' \in 0.._MAX_COUNT_ERR
        /\ vp_debug_error_message_count' =
              MsgAfter(_MAX_COUNT_ERR, nRouted')
        /\ (vp_debug_error_message_count = 0 =>
              vp_debug_error_message_count' = 0)]_vars

\* C7 witness: an error after the budget was used up, logged rate-limited,
\* in the call that also fired the recovery callback
C7_Witness ==
    /\ call.op = "controlled_err"
    /\ nRouted > _MAX_COUNT_ERR
    /\ vp_debug_error_message_count = 0
    /\ trace[1].e = "pr_err_ratelimited"
    /\ \E i \in 1..Len(trace) : IsRecover(trace[i])

(***************************************************************************)
(* C9: deassert on a reset line whose control bit is clear returns         *)
(* -EEXIST after the one read of the control register: no register is      *)
(* written and the status register is not polled.                          *)
(***************************************************************************)
C9_AlreadyDeasserted ==
    [][(/\ call'.op = "deassert_hardreset"
        /\ call'.shift \notin prm_regs[call'.offs]) =>
          /\ ret' = -EEXIST
          /\ NumWrites(trace') = 0
          /\ written' = << >>
          /\ Len(trace') = 1
          /\ trace'[1].e = "read" /\ trace'[1].a = call'.offs
          /\ prm_regs' = prm_regs]_vars

\* C9 witness: a deassert of a line that is not asserted, while another
\* line of the same register is
C9_Witness ==
    /\ call.op = "deassert_hardreset"
    /\ ret = -EEXIST
    /\ call.shift \notin prm_regs[call.offs]
    /\ prm_regs[call.offs] # {}

(***************************************************************************)
(* C10: deassert on an asserted reset line first writes the status bit of  *)
(* the line to the status register at ctrl_offset + 4, then clears the     *)
(* control bit at ctrl_offset, then polls the status bit; when the         *)
(* hardware shows the status bit on poll number k, the call returns 0 iff  *)
(* k is within MAX_MODULE_HARDRESET_WAIT and -EBUSY iff k exceeds it.      *)
(***************************************************************************)
WritePositions(tr) == {i \in 1..Len(tr) : IsWrite(tr[i])}
IsStatusPoll(ev) == ev.e = "read" /\ ev.b > 0
C10_DeassertSequence ==
    [][(/\ call'.op = "deassert_hardreset"
        /\ call'.shift \in prm_regs[call'.offs]) =>
          LET rstst == call'.offs + OMAP4_RST_CTRL_ST_OFFSET
              polls == {i \in 1..Len(trace') : IsStatusPoll(trace'[i])}
              k == call'.k
          IN /\ Len(written') = 2
             /\ written'[1] = [r |-> "prm", idx |-> rstst,
                               val |-> {call'.shift}]
             /\ written'[2] = [r |-> "prm", idx |-> call'.offs,
                               val |-> prm_regs[call'.offs] \ {call'.shift}]
             /\ prm_regs'[call'.offs] = prm_regs[call'.offs] \ {call'.shift}
             /\ \A i \in polls :
                   /\ trace'[i].a = rstst
                   /\ \A j \in WritePositions(trace') : j < i
             /\ Cardinality(polls) =
                   (IF k <= MAX_MODULE_HARDRESET_WAIT THEN k
                    ELSE MAX_MODULE_HARDRESET_WAIT)
             /\ (ret' = 0) <=> (k <= MAX_MODULE_HARDRESET_WAIT)
             /\ (ret' = -EBUSY) <=> (k > MAX_MODULE_HARDRESET_WAIT)]_vars

\* C10 witness: the status bit showed on the last permitted poll and the
\* call succeeded
C10_Witness ==
    /\ call.op = "deassert_hardreset"
    /\ call.k = MAX_MODULE_HARDRESET_WAIT
    /\ ret = 0
    /\ Count(trace, IsStatusPoll) = MAX_MODULE_HARDRESET_WAIT

(***************************************************************************)
(* The reset line controller called with any u16 control register offset   *)
(***************************************************************************)
AssertAnyOffset ==
    /\ call.op = "none"
    /\ \E shift \in Shifts, offs \in AllRstCtrlOffsets :
        \E res \in {omap4_prminst_assert_hardreset(PrmCtx(prm_regs), shift,
                        PRM_PARTITION, PrmInst, offs)} :
           /\ prm_regs' = res.st.regs
           /\ call' = CallRst("assert_hardreset", shift, offs, 0)
           /\ ret' = res.r
           /\ trace' = res.st.tr
           /\ written' = res.st.wr
           /\ UNCHANGED <<vpconfig, enabled, vp_debug_error_message_count,
                          vp_recover_count, nRouted, nRecoverable,
                          recoverCalls>>
           /\ UNCHANGED <<prm_bases, vp_regs, retv, steps>>

DeassertAnyOffset ==
    /\ call.op = "none"
    /\ \E shift \in Shifts, offs \in AllRstCtrlOffsets,
       k \in 1..(MAX_MODULE_HARDRESET_WAIT + 1) :
        \E res \in {omap4_prminst_deassert_hardreset(PrmCtx(prm_regs), shift,
                        PRM_PARTITION, PrmInst, offs, k)} :
           /\ prm_regs' = res.st.regs
           /\ call' = CallRst("deassert_hardreset", shift, offs, k)
           /\ ret' = res.r
           /\ trace' = res.st.tr
           /\ written' = res.st.wr
           /\ UNCHANGED <<vpconfig, enabled, vp_debug_error_message_count,
                          vp_recover_count, nRouted, nRecoverable,
                          recoverCalls>>
           /\ UNCHANGED <<prm_bases, vp_regs, retv, steps>>

NextRstEdge == AssertAnyOffset \/ DeassertAnyOffset \/ Return

SpecRstEdge == Init /\ [][NextRstEdge]_vars

(***************************************************************************)
(* C11: for every 16-bit ctrl_offset passed to deassert, the status        *)
(* register the call writes (to clear the status bit) and polls is the     *)
(* register at ctrl_offset + 4 of the partition and instance of the call:  *)
(* the computed offset does not wrap around.                               *)
(***************************************************************************)
IsPrmAccess(ev) == ev.e \in {"read", "write"} /\ ev.r = "prm"
C11_StatusAtCtrlPlus4 ==
    (call.op = "deassert_hardreset" /\ ret # -EEXIST) =>
       /\ Len(written) >= 1
       /\ written[1].idx = call.offs + OMAP4_RST_CTRL_ST_OFFSET
       /\ \A i \in 1..Len(trace) :
             /\ IsStatusPoll(trace[i]) =>
                   trace[i].a = call.offs + OMAP4_RST_CTRL_ST_OFFSET
             /\ IsPrmAccess(trace[i]) =>
                   /\ trace[i].part = PRM_PARTITION
                   /\ trace[i].inst = PrmInst
                   /\ trace[i].a \in {call.offs,
                                      call.offs + OMAP4_RST_CTRL_ST_OFFSET}

(***************************************************************************)
(* C12 as claimed: enable is idempotent for every domain with VP instance  *)
(* and read/write accessors: a call made while the VP is enabled (the      *)
(* second of two calls in succession) writes no register, and the enabled  *)
(* flag is true after every call.                                          *)
(***************************************************************************)
EnableCapable(d) == d # NULL /\ has_vp(d) /\ has_read(d) /\ has_write(d)
C12_EnableIdempotent ==
    [][(call'.op = "enable" /\ EnableCapable(call'.dom)) =>
          /\ enabled'[call'.dom]
          /\ enabled[call'.dom] =>
                /\ NumWrites(trace') = 0
                /\ written' = << >>]_vars

(***************************************************************************)
(* C12 amended: for a domain with VP instance and read/write accessors, a  *)
(* call of enable made while the VP is enabled accesses no register and    *)
(* leaves the flag true and the configuration register unchanged; a call   *)
(* made while it is disabled, when the voltage-table lookup yields a       *)
(* descriptor, writes the configuration register four times, the last      *)
(* value with the VP-enable bit, and sets the flag; when the lookup yields *)
(* nothing the call writes no register and the flag stays false.           *)
(***************************************************************************)
C12_EnableIdempotentGivenVoltage ==
    [][(call'.op = "enable" /\ EnableCapable(call'.dom)) =>
          LET d == call'.dom
          IN /\ enabled[d] =>
                  /\ NumWrites(trace') = 0
                  /\ Count(trace', IsRegRead) = 0
                  /\ written' = << >>
                  /\ enabled'[d]
                  /\ vpconfig'[d] = vpconfig[d]
             /\ (~enabled[d] /\ call'.target # NULL) =>
                  /\ NumWrites(trace') = 4
                  /\ Len(written') = 4
                  /\ vpconfig_vpenable \subseteq written'[4].val
                  /\ vpconfig'[d] = written'[4].val
                  /\ enabled'[d]
             /\ (~enabled[d] /\ call'.target = NULL) =>
                  /\ NumWrites(trace') = 0
                  /\ written' = << >>
                  /\ ~enabled'[d]
                  /\ vpconfig'[d] = vpconfig[d]]_vars

\* C12 witness: an enable call on a VP that an earlier enable call armed
\* (its enable bit is in the register): it wrote nothing, the flag is true
C12_Witness ==
    /\ call.op = "enable" /\ EnableCapable(call.dom)
    /\ enabled[call.dom]
    /\ vpconfig_vpenable \subseteq vpconfig[call.dom]
    /\ trace = << >>
    /\ written = << >>

(***************************************************************************)
(* C13: disable on an enabled VP ends with the VP-enable bit of the        *)
(* configuration register cleared, every other bit of it unchanged and the *)
(* enabled flag false, whether or not its idle waits time out; disable on  *)
(* a VP that is already disabled accesses no register and leaves the flag  *)
(* false.                                                                  *)
(***************************************************************************)
C13_DisableClearsEnable ==
    [][(call'.op = "disable" /\ EnableCapable(call'.dom)) =>
          LET d == call'.dom
          IN /\ enabled[d] =>
                  /\ vpconfig'[d] = vpconfig[d] \ vpconfig_vpenable
                  /\ written' = <<[r |-> "vpconfig", idx |-> 0,
                                   val |-> vpconfig[d] \ vpconfig_vpenable]>>
                  /\ ~enabled'[d]
             /\ ~enabled[d] =>
                  /\ Count(trace', IsRegRead) = 0
                  /\ NumWrites(trace') = 0
                  /\ written' = << >>
                  /\ vpconfig'[d] = vpconfig[d]
                  /\ ~enabled'[d]]_vars

\* C13 witness: a disable whose two idle waits both timed out cleared the
\* enable bit, kept the initial-voltage field and cleared the flag
C13_Witness ==
    /\ call.op = "disable" /\ EnableCapable(call.dom)
    /\ Count(trace, IsIdleTimeout) = 2
    /\ Len(written) = 1
    /\ vpconfig[call.dom] # {}
    /\ vpconfig[call.dom] \cap vpconfig_vpenable = {}
    /\ ~enabled[call.dom]

(***************************************************************************)
(* Configuration of a VP: omap_vp_update_errorgain and omap_vp_init        *)
(***************************************************************************)
\* a number below 2^31 as a register value
FromNat(n) == {i \in 0..30 : (n \div (2^i)) % 2 = 1}
\* volt_data->vp_errgain
vp_errgain(vdata) == IF vdata = "opp50" THEN 12 ELSE 22
\* voltdm->rmw(mask, bits, vp->vpconfig)
RmwVpconfig(st, mask, bits) ==
    LET s0 == Log(st, EvRead("vpconfig", FALSE))
    IN WriteVpconfig(s0, (s0.cfg \cap BitNot(mask)) \cup bits)

\* omap_vp_update_errorgain
omap_vp_update_errorgain(d, volt_data, st) ==
    IF IS_ERR_OR_NULL(d)
    THEN [r |-> 0, st |-> Log(st, Ev("pr_err", "no VDD", 0, 0, 0))]
    ELSE IF ~has_vp(d)
    THEN [r |-> -EINVAL, st |-> st]
    ELSE IF IS_ERR_OR_NULL(volt_data)
    THEN [r |-> -EINVAL,
          st |-> Log(st, Ev("pr_err", "no voltage data", 0, 0, 0))]
    ELSE IF ~has_rmw(d)
    THEN [r |-> 0, st |-> Log(st, Ev("pr_err", "no rmw", 0, 0, 0))]
    ELSE [r |-> 0,
          st |-> RmwVpconfig(st, vpconfig_errorgain_mask,
                             Shl(FromNat(vp_errgain(volt_data)),
                                 __ffs(vpconfig_errorgain_mask)))]

\* the platform data omap_vp_init computes with: clock rate (Hz), PMIC
\* timing and limits (microseconds, microvolts), VP and VC limits
PlatformData ==
    <<[sys_clk_rate |-> 38400000, vp_timeout_us |-> 200,
       vp_vddmin |-> 830000, vp_vddmax |-> 1410000,
       pmic_vddmin |-> 709000, pmic_vddmax |-> 1418000,
       vc_ret |-> 750000, step_size |-> 12500, slew_rate |-> 4000,
       vp_vstepmin |-> 1, vp_vstepmax |-> 4, vp_erroroffset |-> 0],
      [sys_clk_rate |-> 26000000, vp_timeout_us |-> 160,
       vp_vddmin |-> 700000, vp_vddmax |-> 1350000,
       pmic_vddmin |-> 750000, pmic_vddmax |-> 1300000,
       vc_ret |-> 800000, step_size |-> 12500, slew_rate |-> 8000,
       vp_vstepmin |-> 1, vp_vstepmax |-> 8, vp_erroroffset |-> 2]>>
\* field positions of the step and limit registers (struct omap_vp_common)
vp_common_shifts ==
    [vstepmin_stepmin_shift |-> 0, vstepmin_smpswaittimemin_shift |-> 8,
     vstepmax_stepmax_shift |-> 0, vstepmax_smpswaittimemax_shift |-> 8,
     vlimitto_vddmax_shift |-> 24, vlimitto_vddmin_shift |-> 16,
     vlimitto_timeout_shift |-> 0]
max(a, b) == IF a > b THEN a ELSE b
min(a, b) == IF a < b THEN a ELSE b
DIV_ROUND_UP(n, d) == (n + d - 1) \div d
\* voltdm->write(val, reg) for one of the step and limit registers
WriteVpReg(res, reg, val) ==
    [res EXCEPT !.regs[reg] = val,
                !.st.wr = Append(@, [r |-> reg, idx |-> 0, val |-> val]),
                !.st.tr = Append(@, EvWrite(reg))]

\* the part of omap_vp_init that follows the checks
VpInitWrite(pd, vr, st) ==
    LET sys_clk_rate == pd.sys_clk_rate \div 1000
        timeout == (sys_clk_rate * pd.vp_timeout_us) \div 1000
        vddmin == uv_to_vsel(max(max(pd.vp_vddmin, pd.pmic_vddmin),
                                 pd.vc_ret))
        vddmax == uv_to_vsel(min(pd.vp_vddmax, pd.pmic_vddmax))
        waittime == DIV_ROUND_UP(pd.step_size * sys_clk_rate,
                                 1000 * pd.slew_rate)
        sh == vp_common_shifts
        r0 == [en |-> FALSE, regs |-> vr,
               st |-> WriteVpconfig(st,
                         Shl(FromNat(pd.vp_erroroffset),
                             __ffs(vpconfig_erroroffset_mask))
                         \cup vpconfig_timeouten)]
        r1 == WriteVpReg(r0, "vstepmin",
                 Shl(FromNat(waittime), sh.vstepmin_smpswaittimemin_shift)
                 \cup Shl(FromNat(pd.vp_vstepmin), sh.vstepmin_stepmin_shift))
        r2 == WriteVpReg(r1, "vstepmax",
                 Shl(FromNat(pd.vp_vstepmax), sh.vstepmax_stepmax_shift)
                 \cup Shl(FromNat(waittime),
                          sh.vstepmax_smpswaittimemax_shift))
    IN WriteVpReg(r2, "vlimitto",
                 Shl(FromNat(vddmax), sh.vlimitto_vddmax_shift)
                 \cup Shl(FromNat(vddmin), sh.vlimitto_vddmin_shift)
                 \cup Shl(FromNat(timeout), sh.vlimitto_timeout_shift))

\* omap_vp_init going on without the VC parameter block
omap_vp_init_no_vc_check(d, pd, en, vr, st) ==
    IF IS_ERR_OR_NULL(d)
    THEN [en |-> en, regs |-> vr,
          st |-> Log(st, Ev("pr_err", "no VDD", 0, 0, 0))]
    ELSE IF ~has_pmic(d) \/ ~has_uv_to_vsel(d)
    THEN [en |-> en, regs |-> vr,
          st |-> Log(st, Ev("pr_err", "no PMIC", 0, 0, 0))]
    ELSE IF ~has_read(d) \/ ~has_write(d)
    THEN [en |-> en, regs |-> vr,
          st |-> Log(st, Ev("pr_err", "no read/write", 0, 0, 0))]
    ELSE IF ~has_vp(d)
    THEN [en |-> en, regs |-> vr,
          st |-> Log(st, Ev("pr_err", "no VP", 0, 0, 0))]
    ELSE IF ~has_vp_param(d)
    THEN [en |-> en, regs |-> vr,
          st |-> Log(st, Ev("pr_err", "no vp_param", 0, 0, 0))]
    ELSE VpInitWrite(pd, vr, st)

(***************************************************************************)
(* omap_vp_init.  en is vp->enabled and vr the step and limit registers of *)
(* the domain; the result carries their new values.                        *)
(***************************************************************************)
omap_vp_init(d, pd, en, vr, st) ==
    IF IS_ERR_OR_NULL(d)
    THEN [en |-> en, regs |-> vr,
          st |-> Log(st, Ev("pr_err", "no VDD", 0, 0, 0))]
    ELSE IF ~has_pmic(d) \/ ~has_uv_to_vsel(d)
    THEN [en |-> en, regs |-> vr,
          st |-> Log(st, Ev("pr_err", "no PMIC", 0, 0, 0))]
    ELSE IF ~has_read(d) \/ ~has_write(d)
    THEN [en |-> en, regs |-> vr,
          st |-> Log(st, Ev("pr_err", "no read/write", 0, 0, 0))]
    ELSE IF ~has_vp(d)
    THEN [en |-> en, regs |-> vr,
          st |-> Log(st, Ev("pr_err", "no VP", 0, 0, 0))]
    ELSE IF ~has_vc_param(d)
    THEN [en |-> en, regs |-> vr,
          st |-> Log(st, Ev("pr_err", "no vc_param", 0, 0, 0))]
    ELSE IF ~has_vp_param(d)
    THEN [en |-> en, regs |-> vr,
          st |-> Log(st, Ev("pr_err", "no vp_param", 0, 0, 0))]
    ELSE VpInitWrite(pd, vr, st)

\* the domains the configuration calls are made on
InitDomPtrs == (CfgDomains \ {"iva", "mpu"}) \cup {NULL}
GainDomPtrs == {NULL, "core", "mpu", "novp"}
ArmDomains == {"core", "novcparam"}

(***************************************************************************)
(* A call of omap_vp_init                                                  *)
(***************************************************************************)
VpInit ==
    /\ call.op = "none"
    /\ \E d \in InitDomPtrs, i \in 1..Len(PlatformData) :
        \E res \in {omap_vp_init(d, PlatformData[i], EnabledOf(d, enabled),
                        IF d = NULL THEN NoVpRegs ELSE vp_regs[d],
                        Entry(d, vpconfig, vp_debug_error_message_count,
                              vp_recover_count))} :
           /\ vpconfig' = IF d = NULL THEN vpconfig
                          ELSE [vpconfig EXCEPT ![d] = res.st.cfg]
           /\ enabled' = IF d = NULL THEN enabled
                         ELSE [enabled EXCEPT ![d] = res.en]
           /\ vp_regs' = IF d = NULL THEN vp_regs
                         ELSE [vp_regs EXCEPT ![d] = res.regs]
           /\ call' = [Call("vp_init", d, NULL) EXCEPT !.k = i]
           /\ ret' = 0
           /\ trace' = res.st.tr
           /\ written' = res.st.wr
           /\ UNCHANGED <<vp_debug_error_message_count, vp_recover_count,
                          nRouted, nRecoverable, recoverCalls, prm_regs,
                          prm_bases, retv, steps>>

(***************************************************************************)
(* A call of omap_vp_update_errorgain                                      *)
(***************************************************************************)
UpdateErrorgain ==
    /\ call.op = "none"
    /\ \E d \in GainDomPtrs, volt_data \in TargetPtrs :
        \E res \in {omap_vp_update_errorgain(d, volt_data,
                        Entry(d, vpconfig, vp_debug_error_message_count,
                              vp_recover_count))} :
           /\ vpconfig' = IF d = NULL THEN vpconfig
                          ELSE [vpconfig EXCEPT ![d] = res.st.cfg]
           /\ call' = Call("update_errorgain", d, volt_data)
           /\ ret' = res.r
           /\ trace' = res.st.tr
           /\ written' = res.st.wr
           /\ UNCHANGED <<enabled, vp_regs, vp_debug_error_message_count,
                          vp_recover_count, nRouted, nRecoverable,
                          recoverCalls, prm_regs, prm_bases, retv, steps>>

(***************************************************************************)
(* A call of omap_vp_enable that finds the current voltage                 *)
(***************************************************************************)
Arm ==
    /\ call.op = "none"
    /\ \E d \in ArmDomains, curr \in VoltData :
        \E res \in {omap_vp_enable(d, curr, EnabledOf(d, enabled),
                        Entry(d, vpconfig, vp_debug_error_message_count,
                              vp_recover_count))} :
           /\ vpconfig' = [vpconfig EXCEPT ![d] = res.st.cfg]
           /\ enabled' = [enabled EXCEPT ![d] = res.en]
           /\ call' = Call("enable", d, curr)
           /\ ret' = 0
           /\ trace' = res.st.tr
           /\ written' = res.st.wr
           /\ UNCHANGED <<vp_regs, vp_debug_error_message_count,
                          vp_recover_count, nRouted, nRecoverable,
                          recoverCalls, prm_regs, prm_bases, retv, steps>>

NextCfg == VpInit \/ UpdateErrorgain \/ Arm \/ Return

SpecCfg == Init /\ [][NextCfg]_vars

(***************************************************************************)
(* C14: update_error_gain returns -EINVAL without any register access when *)
(* the domain has no VP instance, no read-modify-write accessor, or the    *)
(* target descriptor is absent; otherwise it makes one read-modify-write   *)
(* of the error-gain field of the configuration register and returns 0.    *)
(***************************************************************************)
C14_ErrorGainInvalidArgument ==
    [][(call'.op = "update_errorgain" /\ call'.dom # NULL) =>
          LET d == call'.dom
          IN IF ~has_vp(d) \/ ~has_rmw(d) \/ call'.target = NULL
             THEN /\ ret' = -EINVAL
                  /\ Count(trace', IsRegRead) = 0
                  /\ NumWrites(trace') = 0
                  /\ vpconfig' = vpconfig
             ELSE /\ ret' = 0
                  /\ Len(trace') = 2
                  /\ IsRegRead(trace'[1]) /\ IsWrite(trace'[2])
                  /\ vpconfig'[d] \ vpconfig_errorgain_mask =
                        vpconfig[d] \ vpconfig_errorgain_mask
                  /\ vpconfig'[d] \cap vpconfig_errorgain_mask =
                        Shl(FromNat(vp_errgain(call'.target)),
                            __ffs(vpconfig_errorgain_mask))]_vars

(***************************************************************************)
(* C15: initialize returns with no register write and the enabled flag     *)
(* unchanged when the domain, the PMIC or its uv_to_vsel conversion, the   *)
(* read or write accessor, the VP instance, the VC parameter block or the  *)
(* VP parameter block is missing; otherwise it sets the enabled flag to    *)
(* false and writes the configuration, step-min, step-max and limit        *)
(* registers once each, in this order, each with one composed value and    *)
(* without reading any register.                                           *)
(***************************************************************************)
InitDependencyMissing(d) ==
    \/ d = NULL
    \/ ~has_pmic(d) \/ ~has_uv_to_vsel(d)
    \/ ~has_read(d) \/ ~has_write(d)
    \/ ~has_vp(d)
    \/ ~has_vc_param(d)
    \/ ~has_vp_param(d)
C15_Initialize ==
    [][call'.op = "vp_init" =>
          LET d == call'.dom
          IN IF InitDependencyMissing(d)
             THEN /\ NumWrites(trace') = 0
                  /\ Count(trace', IsRegRead) = 0
                  /\ written' = << >>
                  /\ enabled' = enabled
                  /\ vpconfig' = vpconfig
                  /\ vp_regs' = vp_regs
             ELSE /\ ~enabled'[d]
                  /\ Count(trace', IsRegRead) = 0
                  /\ NumWrites(trace') = 4
                  /\ Len(written') = 4
                  /\ written'[1].r = "vpconfig"
                  /\ written'[2].r = "vstepmin"
                  /\ written'[3].r = "vstepmax"
                  /\ written'[4].r = "vlimitto"
                  /\ written'[1].val =
                        Shl(FromNat(PlatformData[call'.k].vp_erroroffset),
                            __ffs(vpconfig_erroroffset_mask))
                        \cup vpconfig_timeouten
                  /\ vpconfig'[d] = written'[1].val
                  /\ vp_regs'[d] = [vstepmin |-> written'[2].val,
                                    vstepmax |-> written'[3].val,
                                    vlimitto |-> written'[4].val]
                  /\ \A e \in CfgDomains \ {d} :
                        /\ enabled'[e] = enabled[e]
                        /\ vpconfig'[e] = vpconfig[e]
                        /\ vp_regs'[e] = vp_regs[e]]_vars

\* C15 witness: initialize wrote the four registers of a complete domain
\* while the VP of a domain without VC parameter block is still enabled
C15_Witness ==
    /\ call.op = "vp_init" /\ call.dom = "core"
    /\ Len(written) = 4
    /\ ~enabled["core"]
    /\ vp_regs["core"].vlimitto # {}
    /\ vpconfig["core"] \cap vpconfig_erroroffset_mask # {}
    /\ enabled["novcparam"]

(***************************************************************************)
(* The register access layer called with any partition id, from the state  *)
(* before omap4_prm_base_init: accessors, reset line calls and base init   *)
(***************************************************************************)
\* u8 partition ids of the calls
PartIds == 0..OMAP4_MAX_PRCM_PARTITIONS \cup {255}
\* the registers, masks and values of the calls
AccessRegs == {16, 20}
RmwMasks == SUBSET {0, 31}
RmwBits == SUBSET {1, 31}
CallReg(op, part, idx, mask, bits, shift, k) ==
    [op |-> op, dom |-> NULL, target |-> NULL, shift |-> shift, offs |-> idx,
     k |-> k, part |-> part, mask |-> mask, bits |-> bits]
RegOps == {"read", "write", "rmw", "is_hardreset_asserted",
           "assert_hardreset", "deassert_hardreset"}

InitReg ==
    /\ InitExceptBases
    /\ prm_bases = NoBases

BaseInit ==
    /\ call.op = "none"
    /\ \E globals \in [prm : {0, 1}, prcm_mpu : {0, 1}, scrm : {0, 1}] :
          /\ prm_bases' = omap4_prm_base_init(prm_bases, globals)
          /\ call' = CallReg("base_init", 0, 0, {}, {}, 0, 0)
          /\ UNCHANGED <<vpconfig, enabled, vp_debug_error_message_count,
                         vp_recover_count, ret, trace, written, nRouted,
                         nRecoverable, recoverCalls, prm_regs, vp_regs, retv,
                         steps>>

\* what a call of the register layer leaves unchanged
RegFrame ==
    UNCHANGED <<vpconfig, enabled, vp_debug_error_message_count,
                vp_recover_count, nRouted, nRecoverable, recoverCalls,
                prm_bases, vp_regs, steps>>

ReadInstReg ==
    /\ call.op = "none"
    /\ \E part \in PartIds, idx \in AccessRegs :
        \E res \in {omap4_prminst_read_inst_reg(PrmCtx(prm_regs), part,
                                                PrmInst, idx)} :
           /\ prm_regs' = res.st.regs
           /\ call' = CallReg("read", part, idx, {}, {}, 0, 0)
           /\ ret' = 0
           /\ retv' = res.v
           /\ trace' = res.st.tr
           /\ written' = res.st.wr
           /\ RegFrame

WriteInstReg ==
    /\ call.op = "none"
    /\ \E part \in PartIds, idx \in AccessRegs, val \in RmwBits :
        \E st1 \in {omap4_prminst_write_inst_reg(PrmCtx(prm_regs), val, part,
                                                 PrmInst, idx)} :
           /\ prm_regs' = st1.regs
           /\ call' = CallReg("write", part, idx, {}, val, 0, 0)
           /\ ret' = 0
           /\ retv' = {}
           /\ trace' = st1.tr
           /\ written' = st1.wr
           /\ RegFrame

RmwInstRegBits ==
    /\ call.op = "none"
    /\ \E part \in PartIds, idx \in AccessRegs, mask \in RmwMasks,
          bits \in RmwBits :
        \E res \in {omap4_prminst_rmw_inst_reg_bits(PrmCtx(prm_regs), mask,
                        bits, part, PrmInst, idx)} :
           /\ prm_regs' = res.st.regs
           /\ call' = CallReg("rmw", part, idx, mask, bits, 0, 0)
           /\ ret' = 0
           /\ retv' = res.v
           /\ trace' = res.st.tr
           /\ written' = res.st.wr
           /\ RegFrame

IsHardresetAsserted ==
    /\ call.op = "none"
    /\ \E part \in PartIds, shift \in Shifts :
        \E res \in {omap4_prminst_is_hardreset_asserted(PrmCtx(prm_regs),
                        shift, part, PrmInst, 16)} :
           /\ prm_regs' = res.st.regs
           /\ call' = CallReg("is_hardreset_asserted", part, 16, {}, {},
                              shift, 0)
           /\ ret' = res.v
           /\ retv' = {}
           /\ trace' = res.st.tr
           /\ written' = res.st.wr
           /\ RegFrame

AssertOnPartition ==
    /\ call.op = "none"
    /\ \E part \in PartIds, shift \in Shifts :
        \E res \in {omap4_prminst_assert_hardreset(PrmCtx(prm_regs), shift,
                        part, PrmInst, 16)} :
           /\ prm_regs' = res.st.regs
           /\ call' = CallReg("assert_hardreset", part, 16, {}, {}, shift, 0)
           /\ ret' = res.r
           /\ retv' = {}
           /\ trace' = res.st.tr
           /\ written' = res.st.wr
           /\ RegFrame

DeassertOnPartition ==
    /\ call.op = "none"
    /\ \E part \in PartIds, shift \in Shifts,
          k \in {1, MAX_MODULE_HARDRESET_WAIT + 1} :
        \E res \in {omap4_prminst_deassert_hardreset(PrmCtx(prm_regs), shift,
                        part, PrmInst, 16, k)} :
           /\ prm_regs' = res.st.regs
           /\ call' = CallReg("deassert_hardreset", part, 16, {}, {}, shift, k)
           /\ ret' = res.r
           /\ retv' = {}
           /\ trace' = res.st.tr
           /\ written' = res.st.wr
           /\ RegFrame

NextReg ==
    \/ BaseInit \/ ReadInstReg \/ WriteInstReg \/ RmwInstRegBits
    \/ IsHardresetAsserted \/ AssertOnPartition \/ DeassertOnPartition
    \/ Return

SpecReg == InitReg /\ [][NextReg]_vars

(***************************************************************************)
(* C16: read_modify_write(mask, bits, partition, instance, index) makes    *)
(* exactly one read of the register followed by one write to it; the value *)
(* written and returned is (old & ~mask) | bits, where old is the value    *)
(* read, also when bits has bits outside mask, and a register that stores  *)
(* what is written holds that value afterwards; no other register changes. *)
(***************************************************************************)
C16_RmwResult ==
    [][(call'.op = "rmw" /\ ~Bugged(trace')) =>
          LET idx == call'.offs
              old == prm_regs[idx]
              new == (old \cap (Word \ call'.mask)) \cup call'.bits
          IN /\ retv' = new
             /\ written' = <<[r |-> "prm", idx |-> idx, val |-> new]>>
             /\ Len(trace') = 2
             /\ trace'[1].e = "read" /\ trace'[1].a = idx
             /\ trace'[2].e = "write" /\ trace'[2].a = idx
             /\ trace'[1].part = call'.part /\ trace'[2].part = call'.part
             /\ ~IsRstStatusReg(idx) => prm_regs'[idx] = new
             /\ \A j \in PrmRegs \ {idx} : prm_regs'[j] = prm_regs[j]]_vars

\* C16 witness: a read_modify_write that cleared a bit of mask, kept a bit
\* of the old value outside mask and set a bit of bits outside mask
C16_Witness ==
    /\ call.op = "rmw" /\ ~Bugged(trace)
    /\ call.mask = {0} /\ call.bits = {1}
    /\ retv = {1, 31}
    /\ prm_regs[call.offs] = {1, 31}
    /\ Len(written) = 1

(***************************************************************************)
(* C17: read and write, and with them read_modify_write, is_asserted,      *)
(* assert and deassert, stop at the fatal assertion before any register    *)
(* access whenever the partition id is not below the partition count, is   *)
(* the invalid-partition id, or has a null base, and only then; only the   *)
(* PRM, PRCM-MPU and SCRM partitions ever have a non-null base, so every   *)
(* other partition id is always fatal.                                     *)
(***************************************************************************)
MappablePartitions ==
    {PRM_PARTITION, OMAP4430_PRCM_MPU_PARTITION, OMAP4430_SCRM_PARTITION}
RaceReg == 16
\* the line of thread t, and what it does with it
RaceShift(t) == t - 1
RaceOps == {"assert", "deassert"}
RaceMask(t) == Shl({0}, RaceShift(t))
RaceBits(t, op) == IF op = "assert" THEN RaceMask(t) ELSE {}
AllDone == \A t \in Threads : pc[t] = "done"

RaceStart ==
    /\ call.op = "none"
    /\ \E locked \in BOOLEAN, ops \in [Threads -> RaceOps] :
          /\ call' = [Call("race", NULL, NULL) EXCEPT !.k = IF locked THEN 1
                                                             ELSE 0]
          /\ pc' = [t \in Threads |-> "start"]
          /\ local' = [t \in Threads |->
                         [NoLocal EXCEPT !.mask = RaceMask(t),
                                         !.bits = RaceBits(t, ops[t]),
                                         !.op = ops[t]]]
    /\ UNCHANGED <<vpconfig, enabled, vp_debug_error_message_count,
                   vp_recover_count, ret, trace, written, nRouted,
                   nRecoverable, recoverCalls, prm_regs, prm_bases, vp_regs,
                   retv, lock>>

\* the caller takes the lock, or calls without one
RaceEnter(t) ==
    /\ call.op = "race" /\ pc[t] = "start"
    /\ IF call.k = 1
       THEN lock = 0 /\ lock' = t
       ELSE lock' = lock
    /\ pc' = [pc EXCEPT ![t] = "read"]
    /\ UNCHANGED <<vpconfig, enabled, vp_debug_error_message_count,
                   vp_recover_count, call, ret, trace, written, nRouted,
                   nRecoverable, recoverCalls, prm_regs, prm_bases, vp_regs,
                   retv, local>>

\* v = omap4_prminst_read_inst_reg(part, inst, idx)
RaceRead(t) ==
    /\ call.op = "race" /\ pc[t] = "read"
    /\ local' = [local EXCEPT ![t].v =
                    omap4_prminst_read_inst_reg(PrmCtx(prm_regs),
                        PRM_PARTITION, PrmInst, RaceReg).v]
    /\ pc' = [pc EXCEPT ![t] = "write"]
    /\ UNCHANGED <<vpconfig, enabled, vp_debug_error_message_count,
                   vp_recover_count, call, ret, trace, written, nRouted,
                   nRecoverable, recoverCalls, prm_regs, prm_bases, vp_regs,
                   retv, lock>>

\* v &= ~mask; v |= bits; omap4_prminst_write_inst_reg(v, part, inst, idx)
RaceWrite(t) ==
    /\ call.op = "race" /\ pc[t] = "write"
    /\ prm_regs' = omap4_prminst_write_inst_reg(PrmCtx(prm_regs),
                       RmwValue(local[t].v, local[t].mask, local[t].bits),
                       PRM_PARTITION, PrmInst, RaceReg).regs
    /\ pc' = [pc EXCEPT ![t] = "leave"]
    /\ UNCHANGED <<vpconfig, enabled, vp_debug_error_message_count,
                   vp_recover_count, call, ret, trace, written, nRouted,
                   nRecoverable, recoverCalls, prm_bases, vp_regs, retv,
                   local, lock>>

\* the call returns; a caller that locked releases the lock
RaceLeave(t) ==
    /\ call.op = "race" /\ pc[t] = "leave"
    /\ lock' = IF call.k = 1 THEN 0 ELSE lock
    /\ pc' = [pc EXCEPT ![t] = "done"]
    /\ UNCHANGED <<vpconfig, enabled, vp_debug_error_message_count,
                   vp_recover_count, call, ret, trace, written, nRouted,
                   nRecoverable, recoverCalls, prm_regs, prm_bases, vp_regs,
                   retv, local>>

\* both calls have returned
RaceEnd ==
    /\ call.op = "race" /\ AllDone
    /\ call' = Call("none", NULL, NULL)
    /\ pc' = [t \in Threads |-> "idle"]
    /\ local' = [t \in Threads |-> NoLocal]
    /\ UNCHANGED <<vpconfig, enabled, vp_debug_error_message_count,
                   vp_recover_count, ret, trace, written, nRouted,
                   nRecoverable, recoverCalls, prm_regs, prm_bases, vp_regs,
                   retv, lock>>

NextRace ==
    \/ RaceStart
    \/ \E t \in Threads : RaceEnter(t)
    \/ \E t \in Threads : RaceRead(t)
    \/ \E t \in Threads : RaceWrite(t)
    \/ \E t \in Threads : RaceLeave(t)
    \/ RaceEnd

SpecRace == Init /\ [][NextRace]_vars

(***************************************************************************)
(* C18: when each of two concurrent read_modify_write-based calls on one   *)
(* register runs inside a critical section its caller holds, both changes  *)
(* are in the register once both calls have returned, and at most one      *)
(* caller is between its read and its write at any time; without the lock  *)
(* the calls can interleave so that one caller's change is lost (the state *)
(* C18_Witness).                                                           *)
(***************************************************************************)
ChangePresent(t) ==
    /\ local[t].bits \subseteq prm_regs[RaceReg]
    /\ (local[t].mask \ local[t].bits) \cap prm_regs[RaceReg] = {}
C18_LockedRmwKeepsBoth ==
    (call.op = "race" /\ call.k = 1) =>
       /\ AllDone => \A t \in Threads : ChangePresent(t)
       /\ Cardinality({t \in Threads : pc[t] \in {"read", "write", "leave"}})
             <= 1

\* C18 witness: two calls without a lock have both returned and the change
\* of one of them is not in the register
C18_Witness ==
    /\ call.op = "race" /\ call.k = 0
    /\ AllDone
    /\ \E t \in Threads : ~ChangePresent(t)
    /\ \E t \in Threads : ChangePresent(t)

(***************************************************************************)
(* _vp_controlled_err step by step, for two domains reporting errors at    *)
(* the same time.  Each domain is serialised internally, so there is one   *)
(* caller per domain; the two u8 counters are file-scope statics shared by *)
(* all domains and are read and written with plain loads and stores.       *)
(***************************************************************************)
\* the domain whose error path thread t runs
RaceDomain(t) == IF t = 1 THEN "core" ELSE "iva"
ErrIdle == \A t \in Threads : pc[t] = "idle"

\* a scaling call of the domain times out and enters the macro
ErrEnter(t) ==
    /\ call.op \in {"none", "err_race"} /\ pc[t] = "idle"
    /\ nRouted < MaxErrRaced
    /\ t # 1 => nRouted < MaxRaceErr
    /\ call' = Call("err_race", NULL, NULL)
    /\ pc' = [pc EXCEPT ![t] = "msg_test"]
    /\ local' = [local EXCEPT ![t] = [NoLocal EXCEPT !.dom = RaceDomain(t)]]
    /\ nRouted' = nRouted + 1
    /\ nRecoverable' = nRecoverable
                         + (IF has_recover(RaceDomain(t)) THEN 1 ELSE 0)
    /\ UNCHANGED <<vpconfig, enabled, vp_debug_error_message_count,
                   vp_recover_count, ret, trace, written, recoverCalls,
                   prm_regs, prm_bases, vp_regs, retv, lock>>

\* if (__vp_debug_error_message_count): the load and the test
ErrMsgTest(t) ==
    /\ pc[t] = "msg_test"
    /\ local' = [local EXCEPT ![t].msg = vp_debug_error_message_count]
    /\ pc' = [pc EXCEPT ![t] = IF vp_debug_error_message_count # 0
                                THEN "msg_store" ELSE "rec_load"]
    /\ UNCHANGED <<vpconfig, enabled, vp_debug_error_message_count,
                   vp_recover_count, call, ret, trace, written, nRouted,
                   nRecoverable, recoverCalls, prm_regs, prm_bases, vp_regs,
                   retv, lock>>

\* __vp_debug_error_message_count--: the build may load the counter again
\* for the decrement instead of using the value it tested
ErrMsgReload(t) ==
    /\ pc[t] = "msg_store"
    /\ local[t].msg # vp_debug_error_message_count
    /\ local' = [local EXCEPT ![t].msg = vp_debug_error_message_count]
    /\ UNCHANGED <<vpconfig, enabled, vp_debug_error_message_count,
                   vp_recover_count, call, ret, trace, written, nRouted,
                   nRecoverable, recoverCalls, prm_regs, prm_bases, vp_regs,
                   retv, pc, lock>>

\* __vp_debug_error_message_count--: the store of the u8
ErrMsgStore(t) ==
    /\ pc[t] = "msg_store"
    /\ vp_debug_error_message_count' = (local[t].msg + 255) % 256
    /\ pc' = [pc EXCEPT ![t] = "rec_load"]
    /\ UNCHANGED <<vpconfig, enabled, vp_recover_count, call, ret, trace,
                   written, nRouted, nRecoverable, recoverCalls, prm_regs,
                   prm_bases, vp_regs, retv, local, lock>>

\* (vp)->common->ops->recover && ... : the load of --__vp_recover_count
ErrRecLoad(t) ==
    /\ pc[t] = "rec_load"
    /\ IF has_recover(local[t].dom)
       THEN /\ local' = [local EXCEPT ![t].rec = vp_recover_count]
            /\ pc' = [pc EXCEPT ![t] = "rec_store"]
       ELSE /\ local' = [local EXCEPT ![t] = NoLocal]
            /\ pc' = [pc EXCEPT ![t] = "idle"]
    /\ UNCHANGED <<vpconfig, enabled, vp_debug_error_message_count,
                   vp_recover_count, call, ret, trace, written, nRouted,
                   nRecoverable, recoverCalls, prm_regs, prm_bases, vp_regs,
                   retv, lock>>

\* !(--__vp_recover_count): the store of the u8 and the test of its value
ErrRecStore(t) ==
    /\ pc[t] = "rec_store"
    /\ \E dec \in {(local[t].rec + 255) % 256} :
          /\ vp_recover_count' = dec
          /\ IF dec = 0
             THEN /\ pc' = [pc EXCEPT ![t] = "recover"]
                  /\ local' = [local EXCEPT ![t].rec = dec]
             ELSE /\ pc' = [pc EXCEPT ![t] = "idle"]
                  /\ local' = [local EXCEPT ![t] = NoLocal]
    /\ UNCHANGED <<vpconfig, enabled, vp_debug_error_message_count, call,
                   ret, trace, written, nRouted, nRecoverable, recoverCalls,
                   prm_regs, prm_bases, vp_regs, retv, lock>>

\* (vp)->common->ops->recover((vp)->id)
ErrRecover(t) ==
    /\ pc[t] = "recover"
    /\ recoverCalls' = [recoverCalls EXCEPT ![local[t].dom] = @ + 1]
    /\ pc' = [pc EXCEPT ![t] = "rec_reset"]
    /\ UNCHANGED <<vpconfig, enabled, vp_debug_error_message_count,
                   vp_recover_count, call, ret, trace, written, nRouted,
                   nRecoverable, prm_regs, prm_bases, vp_regs, retv, local,
                   lock>>

\* __vp_recover_count = _MAX_RETRIES_BEFORE_RECOVER
ErrRecReset(t) ==
    /\ pc[t] = "rec_reset"
    /\ vp_recover_count' = _MAX_RETRIES_BEFORE_RECOVER
    /\ pc' = [pc EXCEPT ![t] = "idle"]
    /\ local' = [local EXCEPT ![t] = NoLocal]
    /\ UNCHANGED <<vpconfig, enabled, vp_debug_error_message_count, call,
                   ret, trace, written, nRouted, nRecoverable, recoverCalls,
                   prm_regs, prm_bases, vp_regs, retv, lock>>

NextErrRace ==
    \/ \E t \in Threads : ErrEnter(t)
    \/ \E t \in Threads : ErrMsgTest(t)
    \/ \E t \in Threads : ErrMsgReload(t)
    \/ \E t \in Threads : ErrMsgStore(t)
    \/ \E t \in Threads : ErrRecLoad(t)
    \/ \E t \in Threads : ErrRecStore(t)
    \/ \E t \in Threads : ErrRecover(t)
    \/ \E t \in Threads : ErrRecReset(t)

SpecErrRace == Init /\ [][NextErrRace]_vars

(***************************************************************************)
(* C19: when two domains with a recovery callback route errors through the *)
(* error path concurrently, between error reports the shared counters are  *)
(* what the errors routed so far make them: no decrement is lost (the      *)
(* recovery counter is N2 minus the routed errors modulo N2, the message   *)
(* counter N1 minus the routed errors, not below 0), the recovery counter  *)
(* is within 1..N2, and the recovery callback has fired once per N2 routed *)
(* errors in total.                                                        *)
(***************************************************************************)
C19_SharedCountersConsistent ==
    ErrIdle =>
       /\ vp_recover_count =
             _MAX_RETRIES_BEFORE_RECOVER
                - (nRecoverable % _MAX_RETRIES_BEFORE_RECOVER)
       /\ vp_recover_count \in 1.._MAX_RETRIES_BEFORE_RECOVER
       /\ vp_debug_error_message_count =
             IF nRouted < _MAX_COUNT_ERR THEN _MAX_COUNT_ERR - nRouted ELSE 0
       /\ SumRecoverCalls(recoverCalls) =
             nRecoverable \div _MAX_RETRIES_BEFORE_RECOVER

(***************************************************************************)
(* The control flow of each operation, step by step, for termination.  An  *)
(* operation is its sequence of phases: a check or callee that can make    *)
(* the call return early ("check"), straight-line code ("straight"), an    *)
(* omap_test_timeout poll ("test") or a transaction-done clear loop        *)
(* ("clear").  budget is the bound of a loop, abort tells whether the call *)
(* returns err when the phase fails (a loop: when it timed out).  What the *)
(* hardware answers to a poll is any boolean, on every poll.               *)
(***************************************************************************)
Phase(kind, budget, abort, err) ==
    [kind |-> kind, budget |-> budget, abort |-> abort, err |-> err]

TermOps == {"deassert", "forceupdate", "enable", "disable", "init"}

TermProgram(op) ==
    CASE op = "deassert" ->
           << Phase("check", 0, TRUE, -EEXIST),
              Phase("straight", 0, FALSE, 0),
              Phase("test", MAX_MODULE_HARDRESET_WAIT, TRUE, -EBUSY) >>
      [] op = "forceupdate" ->
           << Phase("check", 0, TRUE, -EINVAL),
              Phase("test", VP_IDLE_TIMEOUT, TRUE, -ETIMEDOUT),
              Phase("check", 0, TRUE, -EIO),
              Phase("clear", VP_TRANXDONE_TIMEOUT, TRUE, -ETIMEDOUT),
              Phase("straight", 0, FALSE, 0),
              Phase("test", VP_TRANXDONE_TIMEOUT, FALSE, 0),
              Phase("straight", 0, FALSE, 0),
              Phase("clear", VP_TRANXDONE_TIMEOUT, FALSE, 0),
              Phase("straight", 0, FALSE, 0) >>
      [] op = "enable" ->
           << Phase("check", 0, TRUE, 0),
              Phase("straight", 0, FALSE, 0) >>
      [] op = "disable" ->
           << Phase("check", 0, TRUE, 0),
              Phase("test", VP_IDLE_TIMEOUT, FALSE, 0),
              Phase("straight", 0, FALSE, 0),
              Phase("test", VP_IDLE_TIMEOUT, FALSE, 0),
              Phase("straight", 0, FALSE, 0) >>
      [] op = "init" ->
           << Phase("check", 0, TRUE, -EINVAL),
              Phase("straight", 0, FALSE, 0) >>

\* the phase thread 1 is in
CurPhase == TermProgram(local[1].op)[local[1].ph]

\* while (timeout++ < VP_TRANXDONE_TIMEOUT), the counter wrapping early
TimeoutPostIncrement_wrap(n) == (n + 1) % VP_TRANXDONE_TIMEOUT
\* while (timeout++ < VP_TRANXDONE_TIMEOUT): the value of timeout afterwards
TimeoutPostIncrement(n) == n + 1

TermFrame ==
    UNCHANGED <<vpconfig, enabled, vp_debug_error_message_count,
                vp_recover_count, trace, written, nRouted, nRecoverable,
                recoverCalls, prm_regs, prm_bases, vp_regs, retv, lock>>

\* the phase is over with the loop counter at n: return err when the phase
\* failed and the code returns on failure, go on with the next phase
\* otherwise (a loop starts with its counter at 0), return 0 after the last
TermLeave(failed, n) ==
    LET timeouts == local[1].to + (IF failed /\ CurPhase.budget > 0 THEN 1
                                   ELSE 0)
    IN IF failed /\ CurPhase.abort
       THEN /\ pc' = [pc EXCEPT ![1] = "return"]
            /\ ret' = CurPhase.err
            /\ local' = [local EXCEPT ![1].to = timeouts, ![1].n = n]
       ELSE IF local[1].ph = Len(TermProgram(local[1].op))
            THEN /\ pc' = [pc EXCEPT ![1] = "return"]
                 /\ ret' = 0
                 /\ local' = [local EXCEPT ![1].to = timeouts, ![1].n = n]
            ELSE LET next == TermProgram(local[1].op)[local[1].ph + 1]
                 IN /\ pc' = [pc EXCEPT ![1] = next.kind]
                    /\ ret' = ret
                    /\ local' = [local EXCEPT
                                    ![1].ph = @ + 1,
                                    ![1].to = timeouts,
                                    ![1].n = IF next.budget > 0 THEN 0 ELSE n]

\* an operation is called
TermCall ==
    /\ call.op = "none" /\ pc[1] = "idle"
    /\ \E op \in TermOps, d \in Domains \cup {NULL} :
          /\ op = "deassert" => d = NULL
          /\ call' = Call("term", d, NULL)
          /\ local' = [local EXCEPT ![1] = [NoLocal EXCEPT !.op = op,
                                                           !.dom = d,
                                                           !.ph = 1]]
          /\ pc' = [pc EXCEPT ![1] = TermProgram(op)[1].kind]
    /\ ret' = 0
    /\ TermFrame

\* the checks at the head of a voltage processor operation pass only for
\* a domain that exists and has its accessors and its VP instance
HeadCheckCanPass ==
    \/ local[1].op = "deassert"
    \/ local[1].ph > 1
    \/ /\ local[1].dom # NULL
       /\ has_read(local[1].dom) /\ has_write(local[1].dom)
       /\ has_vp(local[1].dom)

\* argument and state checks, omap_vc_pre_scale: pass or return
TermCheck ==
    /\ pc[1] = "check"
    /\ \E ok \in BOOLEAN :
          /\ ok => HeadCheckCanPass
          /\ TermLeave(~ok, local[1].n)
    /\ UNCHANGED call
    /\ TermFrame

\* register writes and callees that do not decide the control flow
TermStraight ==
    /\ pc[1] = "straight"
    /\ TermLeave(FALSE, local[1].n)
    /\ UNCHANGED call
    /\ TermFrame

\* omap_test_timeout(cond, budget, index):
\*   for (index = 0; index < budget; index++) { if (cond) break; udelay(1); }
\* one evaluation of the loop condition, and of cond when it holds; the
\* callers take index >= budget for a timeout
TermPollTest ==
    /\ pc[1] = "test"
    /\ IF local[1].n < CurPhase.budget
       THEN \E cond \in BOOLEAN :
               IF cond
               THEN TermLeave(FALSE, local[1].n)
               ELSE /\ local' = [local EXCEPT ![1].n = @ + 1]
                    /\ UNCHANGED <<pc, ret>>
       ELSE TermLeave(TRUE, local[1].n)
    /\ UNCHANGED call
    /\ TermFrame

\* while (timeout++ < budget) { clear_txdone(); if (!check_txdone()) break;
\*                              udelay(1); }
\* one evaluation of the loop condition, and of the body when it holds; the
\* caller takes timeout >= budget for a timeout
TermPollClear ==
    /\ pc[1] = "clear"
    /\ IF local[1].n < CurPhase.budget
       THEN \E pending \in BOOLEAN, n1 \in {TimeoutPostIncrement(local[1].n)} :
               IF ~pending
               THEN TermLeave(n1 >= CurPhase.budget, n1)
               ELSE /\ local' = [local EXCEPT ![1].n = n1]
                    /\ UNCHANGED <<pc, ret>>
       ELSE TermLeave(TRUE, TimeoutPostIncrement(local[1].n))
    /\ UNCHANGED call
    /\ TermFrame

\* the operation returns to its caller
TermReturn ==
    /\ pc[1] = "return"
    /\ pc' = [pc EXCEPT ![1] = "idle"]
    /\ local' = [local EXCEPT ![1] = NoLocal]
    /\ call' = Call("none", NULL, NULL)
    /\ UNCHANGED ret
    /\ TermFrame

\* the steps of a call in progress
TermStep ==
    TermCheck \/ TermStraight \/ TermPollTest \/ TermPollClear \/ TermReturn

NextTerm ==
    \/ TermCall
    \/ TermCheck
    \/ TermStraight
    \/ TermPollTest
    \/ TermPollClear
    \/ TermReturn

\* a thread that is inside a call keeps executing: the delays are busy
\* waits, nothing in the operations blocks
SpecTerm == Init /\ [][NextTerm]_vars /\ WF_vars(TermStep)

(***************************************************************************)
(* C20: every operation (deassert, force update, enable, disable,          *)
(* initialise) terminates whatever the hardware answers: a call in         *)
(* progress eventually returns, a polling loop never goes past its budget  *)
(* of iterations, and no step is retried (within a call the phase never    *)
(* goes back, and staying in a phase means one more iteration of its       *)
(* loop).                                                                  *)
(***************************************************************************)
InCall == pc[1] \notin {"idle", "return"}
LoopWithinBudget ==
    (InCall /\ CurPhase.kind \in {"test", "clear"}) =>
        local[1].n <= CurPhase.budget
NoStepRetried ==
    (InCall /\ pc'[1] \notin {"idle", "return"}) =>
        \/ local'[1].ph > local[1].ph
        \/ /\ local'[1].ph = local[1].ph
           /\ local'[1].n = local[1].n + 1
C20_Terminates ==
    /\ []LoopWithinBudget
    /\ [][NoStepRetried]_vars
    /\ (pc[1] # "idle") ~> (pc[1] = "idle")

\* C20 witness: a force update whose hardware never set idle in time is not
\* the case (that call returns); here the hardware never set and never
\* cleared transaction-done, both late loops ran out of budget, and the
\* call is at its final write
C20_Witness ==
    /\ local[1].op = "forceupdate"
    /\ local[1].ph = Len(TermProgram("forceupdate"))
    /\ local[1].to = 2
    /\ pc[1] = "straight"

(***************************************************************************)
(* The writes of a call to the VP configuration register                   *)
(***************************************************************************)
\* positions of the register writes in the events of a call, and the n-th
WriteIdx(tr) == {i \in 1..Len(tr) : IsWrite(tr[i])}
NthWrite(tr, n) ==
    CHOOSE i \in WriteIdx(tr) : Cardinality({j \in WriteIdx(tr) : j <= i}) = n
\* the bits of a selector code
SelBits(n) == {i \in 0..30 : (n \div (2^i)) % 2 = 1}
\* old with the initial-voltage field replaced by the selector of volt and
\* the force-update and init-VDD apply bits cleared
WithInitVoltage(old, volt) ==
    (old \ (vpconfig_initvoltage_mask \cup vpconfig_forceupdate
              \cup vpconfig_initvdd))
      \cup {i + 8 : i \in SelBits(uv_to_vsel(volt))}
VpconfigWrite(val) == [r |-> "vpconfig", idx |-> 0, val |-> val]

(***************************************************************************)
(* C21: a force_update_scale call that passes its checks, its idle wait,   *)
(* pre_scale and the pre-trigger clear writes the VP configuration         *)
(* register exactly five times: V, V with the init-VDD apply bit, V, V     *)
(* with the force-update bit, V, where V is the register as it was when    *)
(* the call began (nothing writes it before) with the initial-voltage      *)
(* field replaced by uv_to_vsel(target voltage) and the force-update and   *)
(* apply bits cleared.  The force-update write comes after a pre-trigger   *)
(* check that saw transaction-done cleared, post_scale is called between   *)
(* the force-update write and the final write, and the register ends up    *)
(* holding V.                                                              *)
(***************************************************************************)
ScalePassedClear(tr) == IdleSeen(tr) /\ PreScaleOk(tr) /\ ~ClearAborted(tr)
FiveWritesOf(regBefore, c, tr, wr, regAfter) ==
    LET V == WithInitVoltage(regBefore, omap_get_operation_voltage(c.target))
    IN /\ wr = << VpconfigWrite(V),
                  VpconfigWrite(V \cup vpconfig_initvdd),
                  VpconfigWrite(V),
                  VpconfigWrite(V \cup vpconfig_forceupdate),
                  VpconfigWrite(V) >>
       /\ Cardinality(WriteIdx(tr)) = 5
       /\ \E i \in PreClearChecks(tr) : tr[i].v = 0 /\ i < NthWrite(tr, 4)
       /\ \E j \in 1..Len(tr) :
             /\ IsPostScale(tr[j])
             /\ NthWrite(tr, 4) < j /\ j < NthWrite(tr, 5)
       /\ regAfter = V
C21_FiveWritesInOrder ==
    [][(call.op = "none" /\ call'.op = "forceupdate_scale"
          /\ ScalePassedClear(trace'))
        => FiveWritesOf(vpconfig[call'.dom], call', trace', written',
                        vpconfig'[call'.dom])]_vars

\* C21 witness: a successful force update of an enabled VP: five writes,
\* the fourth with the force-update bit, the register left with the enable
\* bit, the new selector and neither the force-update nor the apply bit,
\* although transaction-done was never seen after the trigger
C21_Witness ==
    /\ IsScale /\ ret = 0
    /\ Len(written) = 5
    /\ vpconfig_forceupdate \subseteq written[4].val
    /\ vpconfig_initvdd \subseteq written[2].val
    /\ vpconfig[call.dom] = written[5].val
    /\ vpconfig_vpenable \subseteq vpconfig[call.dom]
    /\ vpconfig[call.dom] \cap (vpconfig_forceupdate \cup vpconfig_initvdd) = {}
    /\ call.target = "opp100"
    /\ \E i \in 1..Len(trace) : IsWaitTimeout(trace[i])

(***************************************************************************)
(* Global warm and cold software reset (prminst44xx.c:161-212).  soc tells *)
(* what cpu_is_omap44xx() answers.                                         *)
(***************************************************************************)
Socs == {"omap44xx", "omap54xx"}
cpu_is_omap44xx(soc) == soc = "omap44xx"
dev_inst(soc) == IF cpu_is_omap44xx(soc) THEN OMAP4430_PRM_DEVICE_INST
                 ELSE OMAP54XX_PRM_DEVICE_INST
\* udelay(us), not reached once BUG_ON stopped the program
udelay(st, us) == IF st.bug THEN st ELSE Log(st, Ev("udelay", "cpu", us, 0, 0))

omap4_prminst_global_warm_sw_reset(soc, st) ==
    LET rd == omap4_prminst_read_inst_reg(st, PRM_PARTITION, dev_inst(soc),
                                          OMAP4_PRM_RSTCTRL_OFFSET)
        v == rd.v \cup OMAP4430_RST_GLOBAL_WARM_SW_MASK
        s1 == omap4_prminst_write_inst_reg(rd.st, v, PRM_PARTITION,
                                           dev_inst(soc),
                                           OMAP4_PRM_RSTCTRL_OFFSET)
    IN omap4_prminst_read_inst_reg(s1, PRM_PARTITION, dev_inst(soc),
                                   OMAP4_PRM_RSTCTRL_OFFSET).st

\* the cold reset without the write that clears the status bit first
omap4_prminst_global_cold_sw_reset_no_preclear(soc, st) ==
    LET rd == omap4_prminst_read_inst_reg(st, PRM_PARTITION, dev_inst(soc),
                                          OMAP4_RM_RSTCTRL)
        v == rd.v \cup OMAP4430_RST_GLOBAL_COLD_SW_MASK
        s1 == omap4_prminst_write_inst_reg(rd.st, v, PRM_PARTITION,
                                           dev_inst(soc), OMAP4_RM_RSTCTRL)
        s2 == omap4_prminst_read_inst_reg(s1, PRM_PARTITION, dev_inst(soc),
                                          OMAP4_RM_RSTCTRL).st
    IN udelay(s2, 184)

omap4_prminst_global_cold_sw_reset(soc, st) ==
    LET s0 == omap4_prminst_write_inst_reg(st, OMAP4430_GLOBAL_COLD_RST_MASK,
                                           PRM_PARTITION, dev_inst(soc),
                                           OMAP4_RM_RSTST)
        rd == omap4_prminst_read_inst_reg(s0, PRM_PARTITION, dev_inst(soc),
                                          OMAP4_RM_RSTCTRL)
        v == rd.v \cup OMAP4430_RST_GLOBAL_COLD_SW_MASK
        s1 == omap4_prminst_write_inst_reg(rd.st, v, PRM_PARTITION,
                                           dev_inst(soc), OMAP4_RM_RSTCTRL)
        s2 == omap4_prminst_read_inst_reg(s1, PRM_PARTITION, dev_inst(soc),
                                          OMAP4_RM_RSTCTRL).st
    IN udelay(s2, 184)

\* what other code has left in the global reset control register
DevCtrlValues == SUBSET {0, 1, 31}

\* a write of the global reset control register of the device instance
WriteDevCtrl ==
    /\ call.op = "none"
    /\ \E soc \in Socs, val \in DevCtrlValues :
        \E st1 \in {omap4_prminst_write_inst_reg(PrmCtx(prm_regs), val,
                        PRM_PARTITION, dev_inst(soc), OMAP4_RM_RSTCTRL)} :
           /\ prm_regs' = st1.regs
           /\ call' = [CallReg("write", PRM_PARTITION, OMAP4_RM_RSTCTRL, {},
                               val, 0, 0) EXCEPT !.target = soc]
           /\ ret' = 0
           /\ retv' = {}
           /\ trace' = st1.tr
           /\ written' = st1.wr
    /\ RegFrame

GlobalWarmSwReset ==
    /\ call.op = "none"
    /\ \E soc \in Socs :
        \E st1 \in {omap4_prminst_global_warm_sw_reset(soc,
                                                       PrmCtx(prm_regs))} :
           /\ prm_regs' = st1.regs
           /\ call' = [CallReg("global_warm_sw_reset", PRM_PARTITION, 0, {},
                               {}, 0, 0) EXCEPT !.target = soc]
           /\ ret' = 0
           /\ retv' = prm_regs[OMAP4_PRM_RSTCTRL_OFFSET]
           /\ trace' = st1.tr
           /\ written' = st1.wr
    /\ RegFrame

GlobalColdSwReset ==
    /\ call.op = "none"
    /\ \E soc \in Socs :
        \E st1 \in {omap4_prminst_global_cold_sw_reset(soc,
                                                       PrmCtx(prm_regs))} :
           /\ prm_regs' = st1.regs
           /\ call' = [CallReg("global_cold_sw_reset", PRM_PARTITION, 0, {},
                               {}, 0, 0) EXCEPT !.target = soc]
           /\ ret' = 0
           /\ retv' = prm_regs[OMAP4_RM_RSTCTRL]
           /\ trace' = st1.tr
           /\ written' = st1.wr
    /\ RegFrame

NextGlobalRst ==
    \/ BaseInit \/ WriteDevCtrl \/ GlobalWarmSwReset \/ GlobalColdSwReset
    \/ Return

SpecGlobalRst == InitReg /\ [][NextGlobalRst]_vars

(***************************************************************************)
(* C22: with the PRM partition mapped, global cold reset accesses, in this *)
(* order and on the device instance of the PRM partition: a write of the   *)
(* cold-reset status mask to the status register, a read of the control    *)
(* register, a write of what was read with the cold-reset bit set, a read  *)
(* of the control register, then the delay.  Global warm reset reads the   *)
(* control register, writes what was read with the warm-reset bit set,     *)
(* reads the control register, and never writes the status register.       *)
(* (retv holds the control register as it was when the call began.)        *)
(***************************************************************************)
DevAccess(e, soc, idx) ==
    EvPrm(e, PRM_PARTITION,
          IF soc = "omap44xx" THEN OMAP4430_PRM_DEVICE_INST
          ELSE OMAP54XX_PRM_DEVICE_INST, idx)
PrmWrite(idx, val) == [r |-> "prm", idx |-> idx, val |-> val]
C22_GlobalResetSequence ==
    /\ (call.op = "global_cold_sw_reset" /\ ~Bugged(trace)) =>
          /\ trace = << DevAccess("write", call.target, 4),
                        DevAccess("read", call.target, 0),
                        DevAccess("write", call.target, 0),
                        DevAccess("read", call.target, 0),
                        Ev("udelay", "cpu", 184, 0, 0) >>
          /\ written = << PrmWrite(4, {0}), PrmWrite(0, retv \cup {1}) >>
          /\ prm_regs[0] = retv \cup {1}
    /\ (call.op = "global_warm_sw_reset" /\ ~Bugged(trace)) =>
          /\ trace = << DevAccess("read", call.target, 0),
                        DevAccess("write", call.target, 0),
                        DevAccess("read", call.target, 0) >>
          /\ written = << PrmWrite(0, retv \cup {0}) >>
          /\ prm_regs[0] = retv \cup {0}

\* C22 witness: a cold reset on an OMAP5 device whose control register held
\* the warm-reset bit and bit 31: both kept, the cold-reset bit added
C22_Witness ==
    /\ call.op = "global_cold_sw_reset" /\ ~Bugged(trace)
    /\ call.target = "omap54xx"
    /\ retv = {0, 31}
    /\ prm_regs[0] = {0, 1, 31}
    /\ Len(trace) = 5

(***************************************************************************)
(* The life of one voltage processor: initialisation, then enable,         *)
(* disable, force update and error-gain update calls on the domain in any  *)
(* order, one call at a time.  Every state is a state between two          *)
(* operations: a call is one step, and its record stays until the call has *)
(* returned.                                                               *)
(***************************************************************************)
LifeDomain == "core"
LifeInit == VpInit /\ call'.dom = LifeDomain
LifeEnable == Enable /\ call'.dom = LifeDomain
LifeDisable == Disable /\ call'.dom = LifeDomain
LifeScale == ForceUpdateScale /\ call'.dom = LifeDomain
LifeGain == UpdateErrorgain /\ call'.dom = LifeDomain

NextLife ==
    \/ LifeInit \/ LifeEnable \/ LifeDisable \/ LifeScale \/ LifeGain
    \/ Return

SpecLife == Init /\ [][NextLife]_vars

(***************************************************************************)
(* C23: between operations the enabled flag of a VP is true exactly when   *)
(* the VP-enable bit of its configuration register is set, after           *)
(* initialisation and any sequence of enable, disable, force update and    *)
(* error-gain update calls; force update and error-gain update change      *)
(* neither the flag nor the bit.                                           *)
(***************************************************************************)
EnableBitSet(cfgs, d) == vpconfig_vpenable \subseteq cfgs[d]
FlagMatchesBit == \A d \in CfgDomains : enabled[d] <=> EnableBitSet(vpconfig, d)
ScaleOrGainKeepsEnable ==
    (call.op = "none"
       /\ call'.op \in {"forceupdate_scale", "update_errorgain"}) =>
        \A d \in CfgDomains :
            /\ enabled'[d] = enabled[d]
            /\ EnableBitSet(vpconfig', d) <=> EnableBitSet(vpconfig, d)
C23_EnabledIffEnableBit ==
    /\ []FlagMatchesBit
    /\ [][ScaleOrGainKeepsEnable]_vars

\* C23 witness: an initialised and then enabled VP (the timeout-enable bit
\* is written by initialisation only) whose error gain was updated and
\* which a force update has just scaled: flag and bit are both set
C23_Witness ==
    /\ IsScale /\ ret = 0 /\ call.dom = "core"
    /\ enabled["core"]
    /\ vpconfig_vpenable \subseteq vpconfig["core"]
    /\ vpconfig_timeouten \subseteq vpconfig["core"]
    /\ vpconfig["core"] \cap vpconfig_errorgain_mask # {}

(***************************************************************************)
(* C24: between operations the force-update bit and the init-VDD apply bit *)
(* of the VP configuration register are clear, whatever way the last       *)
(* operation returned (success, -ETIMEDOUT, an error of pre_scale, an      *)
(* early return); a value with the force-update bit is written only by a   *)
(* force update call, as its write before the last, so the bit is set only *)
(* from that write to the final write of the call.                         *)
(***************************************************************************)
TriggerBits == vpconfig_forceupdate \cup vpconfig_initvdd
C24_TriggerBitsClearAtRest ==
    /\ \A d \in CfgDomains : vpconfig[d] \cap TriggerBits = {}
    /\ \A i \in 1..Len(written) :
          (written[i].r = "vpconfig"
             /\ vpconfig_forceupdate \subseteq written[i].val) =>
                /\ IsScale
                /\ i = Len(written) - 1
                /\ written[i + 1].r = "vpconfig"
                /\ written[i + 1].val \cap TriggerBits = {}

\* C24 witness: on an initialised and enabled VP a force update set the
\* force-update bit, saw neither transaction-done set nor cleared in time,
\* and still left the register with both bits clear
C24_Witness ==
    /\ IsScale /\ ret = 0 /\ call.dom = "core"
    /\ vpconfig_timeouten \subseteq vpconfig["core"]
    /\ Len(written) = 5
    /\ vpconfig_forceupdate \subseteq written[4].val
    /\ vpconfig["core"] \cap TriggerBits = {}
    /\ \E i \in 1..Len(trace) : IsWaitTimeout(trace[i])
    /\ \E i \in 1..Len(trace) :
          IsClearTimeout(trace[i]) /\ i \notin PreClearChecks(trace)

(***************************************************************************)
(* C25: a deassert that returns 0 or -EBUSY leaves the control bit of its  *)
(* line clear and every other bit of the control register as it was; a     *)
(* deassert of a line whose control bit is clear returns -EEXIST after one *)
(* read of the control register, without a write and without a poll; only *)
(* an assert of the line sets its control bit again, and an assert always  *)
(* returns 0 and changes nothing but that bit.  Hence a deassert that      *)
(* returned -EBUSY is answered -EEXIST when repeated, until the line has   *)
(* been asserted again.                                                    *)
(***************************************************************************)
DeassertFrame ==
    (call.op = "none" /\ call'.op = "deassert_hardreset") =>
       LET offs == call'.offs
           shift == call'.shift
       IN /\ ret' \in {0, -EBUSY} =>
                /\ shift \in prm_regs[offs]
                /\ prm_regs'[offs] = prm_regs[offs] \ {shift}
                /\ \A o \in RstCtrlOffsets \ {offs} : prm_regs'[o] = prm_regs[o]
          /\ shift \notin prm_regs[offs] =>
                /\ ret' = -EEXIST
                /\ written' = << >>
                /\ trace' = << EvPrm("read", PRM_PARTITION, PrmInst, offs) >>
                /\ prm_regs' = prm_regs
AssertFrame ==
    (call.op = "none" /\ call'.op = "assert_hardreset") =>
       /\ ret' = 0
       /\ prm_regs' = [prm_regs EXCEPT ![call'.offs] = @ \cup {call'.shift}]
OnlyAssertSetsControlBit ==
    \A o \in RstCtrlOffsets, sh \in Shifts :
        (sh \notin prm_regs[o] /\ sh \in prm_regs'[o]) =>
            /\ call'.op = "assert_hardreset"
            /\ call'.offs = o /\ call'.shift = sh
C25_DeassertFrame ==
    [][DeassertFrame /\ AssertFrame /\ OnlyAssertSetsControlBit]_vars

\* C25 witness: a deassert returned -EBUSY: its control bit is clear, the
\* other line of the same control register is still asserted and the
\* status bit never showed
C25_Witness ==
    /\ call.op = "deassert_hardreset" /\ ret = -EBUSY
    /\ call.shift \notin prm_regs[call.offs]
    /\ prm_regs[call.offs] # {}
    /\ call.shift \notin prm_regs[call.offs + OMAP4_RST_CTRL_ST_OFFSET]
    /\ Len(written) = 2

====
